---- MODULE Spec2Model ----
(***************************************************************************)
(* dotagents: the plan / apply / undo engine.                              *)
(*                                                                         *)
(* The filesystem is a function from absolute paths (sequences of path     *)
(* segments) to nodes.  A node is a record [k, c]: k is "file", "dir" or   *)
(* "link"; c is the file's content (a one-element sequence), <<>> for a    *)
(* directory, or the link text (a path) for a symbolic link.               *)
(***************************************************************************)
EXTENDS Naturals, Sequences, FiniteSets, TLC

VARIABLES fs, manifests, now, hist, opts, plan, session, call

vars == <<fs, manifests, now, hist, opts, plan, session, call>>

\* ------------------------------------------------------------------ bounds
MaxOps == 3

MaxCalls == 3

\* ------------------------------------------------------------------ paths
homeDir == <<"home">>

projectRoot == <<"proj">>

Scopes == {"global", "project"}

Clients == {"claude", "factory", "codex", "cursor", "opencode", "gemini"}

\* a function written out as an explicit table of its values
Table(f) == f @@ <<>>

DirNode == [k |-> "dir", c |-> <<>>]

FileNode(content) == [k |-> "file", c |-> <<content>>]

LinkNode(link) == [k |-> "link", c |-> link]

IsPrefix(a, b) == Len(a) <= Len(b) /\ SubSeq(b, 1, Len(a)) = a

dirname(p) == SubSeq(p, 1, Len(p) - 1)

basename(p) == p[Len(p)]

Prefixes(p) == {SubSeq(p, 1, i) : i \in 1..Len(p)}

Under(f, p) == {q \in DOMAIN f : IsPrefix(p, q)}

Children(f, p) == {q \in DOMAIN f : Len(q) = Len(p) + 1 /\ IsPrefix(p, q)}

\* the subtree at p, with paths relative to p (the kind and content of p)
Subtree(f, p) ==
  Table([r \in {SubSeq(q, Len(p) + 1, Len(q)) : q \in Under(f, p)} |-> f[p \o r]])

\* ------------------------------------------------------------------ utils/fs
pathExists(f, p) == p \in DOMAIN f

isSymlink(f, p) == p \in DOMAIN f /\ f[p].k = "link"

isDirectory(f, p) == p \in DOMAIN f /\ f[p].k = "dir"

removePath(f, p) ==
  IF ~pathExists(f, p) THEN f ELSE Table([q \in DOMAIN f \ Under(f, p) |-> f[q]])

ensureDir(f, p) ==
  IF p \in DOMAIN f \/ p = <<>> THEN f
  ELSE f @@ [q \in Prefixes(p) |-> DirNode]

writeNode(f, p, n) == (p :> n) @@ f

ensureFile(f, p, content) ==
  IF pathExists(f, p) THEN f ELSE writeNode(ensureDir(f, dirname(p)), p, FileNode(content))

symlink(f, link, at) == writeNode(f, at, LinkNode(link))

\* copy of the tree at src onto dst (force): entries of src replace those of dst
copyTree(f, src, dst) ==
  LET g == ensureDir(f, dirname(dst))
      rel == {SubSeq(q, Len(src) + 1, Len(q)) : q \in Under(f, src)}
  IN  Table([q \in DOMAIN g \cup {dst \o r : r \in rel} |->
               IF IsPrefix(dst, q) /\ SubSeq(q, Len(dst) + 1, Len(q)) \in rel
               THEN f[src \o SubSeq(q, Len(dst) + 1, Len(q))]
               ELSE g[q]])

copyFile(f, src, dst) == writeNode(ensureDir(f, dirname(dst)), dst, f[src])

copyDir(f, src, dst) == copyTree(f, src, dst)

\* fs.promises.rename refuses a destination that is a directory with entries,
\* or of the other kind (ENOTEMPTY, EISDIR, ENOTDIR)
renameFails(f, src, dst) ==
  /\ pathExists(f, dst)
  /\ \/ f[src].k = "dir" /\ (f[dst].k # "dir" \/ Children(f, dst) # {})
     \/ f[src].k # "dir" /\ f[dst].k = "dir"

\* fs.promises.rename when it succeeds: the tree at src becomes the tree at dst
rename(f, src, dst) ==
  LET rel == {SubSeq(q, Len(src) + 1, Len(q)) : q \in Under(f, src)}
      keep == (DOMAIN f \ Under(f, src)) \ Under(f, dst)
  IN  Table([q \in keep \cup {dst \o r : r \in rel} |->
               IF q \in keep THEN f[q] ELSE f[src \o SubSeq(q, Len(dst) + 1, Len(q))]])

\* ------------------------------------------------------------------ paths.ts
resolveRoots(scope) ==
  IF scope = "global"
  THEN [canonicalRoot |-> homeDir \o <<".agents">>,
        claudeRoot |-> homeDir \o <<".claude">>,
        factoryRoot |-> homeDir \o <<".factory">>,
        codexRoot |-> homeDir \o <<".codex">>,
        cursorRoot |-> homeDir \o <<".cursor">>,
        opencodeRoot |-> homeDir \o <<".config", "opencode">>,
        opencodeConfigRoot |-> homeDir \o <<".config", "opencode">>,
        geminiRoot |-> homeDir \o <<".gemini">>]
  ELSE [canonicalRoot |-> projectRoot \o <<".agents">>,
        claudeRoot |-> projectRoot \o <<".claude">>,
        factoryRoot |-> projectRoot \o <<".factory">>,
        codexRoot |-> projectRoot \o <<".codex">>,
        cursorRoot |-> projectRoot \o <<".cursor">>,
        opencodeRoot |-> projectRoot \o <<".opencode">>,
        opencodeConfigRoot |-> homeDir \o <<".config", "opencode">>,
        geminiRoot |-> projectRoot \o <<".gemini">>]

\* ------------------------------------------------------------------ mappings.ts
\* opts.clients ?? ['claude', 'factory', 'codex', 'cursor', 'opencode', 'gemini']
defaultClients(o) == IF o.given THEN o.clients ELSE Clients

overrideSource_noPrecedence(f, override, fallback) == fallback

\* pathExists(override) ? override : fallback
overrideSource(f, override, fallback) ==
  IF pathExists(f, override) THEN override ELSE fallback

includeAgentFiles_anyScope(scope) == TRUE

includeAgentFiles(scope) == scope = "global"

\* [cond ? path : null].filter(Boolean)
opt(cond, p) == IF cond THEN <<p>> ELSE <<>>

Mapping_twice(name, source, targets, kind) ==
  [name |-> name, source |-> source, targets |-> targets \o targets, kind |-> kind]

Mapping(name, source, targets, kind) ==
  [name |-> name, source |-> source, targets |-> targets, kind |-> kind]

getMappings(o, f) ==
  LET roots == resolveRoots(o.scope)
      canonical == roots.canonicalRoot
      claudeOverride == canonical \o <<"CLAUDE.md">>
      geminiOverride == canonical \o <<"GEMINI.md">>
      agentsFallback == canonical \o <<"AGENTS.md">>
      claudeSource == overrideSource(f, claudeOverride, agentsFallback)
      geminiSource == overrideSource(f, geminiOverride, agentsFallback)
      clients == defaultClients(o)
      has(c) == c \in clients
      opencodeSkillsRoot ==
        IF o.scope = "global" THEN roots.opencodeConfigRoot ELSE roots.opencodeRoot
      agentTargets ==
        opt(has("factory"), roots.factoryRoot \o <<"AGENTS.md">>)
        \o opt(has("codex"), roots.codexRoot \o <<"AGENTS.md">>)
        \o opt(has("opencode"), roots.opencodeConfigRoot \o <<"AGENTS.md">>)
  IN  opt(includeAgentFiles(o.scope) /\ has("claude"),
          Mapping("claude-md", claudeSource, <<roots.claudeRoot \o <<"CLAUDE.md">>>>, "file"))
      \o opt(includeAgentFiles(o.scope) /\ has("gemini"),
          Mapping("gemini-md", geminiSource, <<roots.geminiRoot \o <<"GEMINI.md">>>>, "file"))
      \o opt(includeAgentFiles(o.scope) /\ Len(agentTargets) > 0,
          Mapping("agents-md", agentsFallback, agentTargets, "file"))
      \o << Mapping("commands", canonical \o <<"commands">>,
              opt(has("claude"), roots.claudeRoot \o <<"commands">>)
              \o opt(has("factory"), roots.factoryRoot \o <<"commands">>)
              \o opt(has("codex"), roots.codexRoot \o <<"prompts">>)
              \o opt(has("opencode"), roots.opencodeRoot \o <<"commands">>)
              \o opt(has("cursor"), roots.cursorRoot \o <<"commands">>)
              \o opt(has("gemini"), roots.geminiRoot \o <<"commands">>),
              "dir"),
            Mapping("hooks", canonical \o <<"hooks">>,
              opt(has("claude"), roots.claudeRoot \o <<"hooks">>)
              \o opt(has("factory"), roots.factoryRoot \o <<"hooks">>),
              "dir"),
            Mapping("skills", canonical \o <<"skills">>,
              opt(has("claude"), roots.claudeRoot \o <<"skills">>)
              \o opt(has("factory"), roots.factoryRoot \o <<"skills">>)
              \o opt(has("codex"), roots.codexRoot \o <<"skills">>)
              \o opt(has("opencode"), opencodeSkillsRoot \o <<"skills">>)
              \o opt(has("cursor"), roots.cursorRoot \o <<"skills">>)
              \o opt(has("gemini"), roots.geminiRoot \o <<"skills">>),
              "dir") >>

\* ------------------------------------------------------------------ plan.ts
Task(type, source, target, kind, replaceSymlink, path) ==
  [type |-> type, source |-> source, target |-> target, kind |-> kind,
   replaceSymlink |-> replaceSymlink, path |-> path]

\* the classification of one target of a mapping
analyzeTarget(f, source, target, kind) ==
  IF ~pathExists(f, target) THEN Task("link", source, target, kind, FALSE, <<>>)
  ELSE IF isSymlink(f, target)
       THEN IF f[target].c = source
            THEN Task("noop", source, target, kind, FALSE, <<>>)
            ELSE Task("link", source, target, kind, TRUE, <<>>)
       ELSE Task("conflict", source, target, kind, FALSE, <<>>)

RECURSIVE targetTasks(_, _, _)
targetTasks(f, m, i) ==
  IF i > Len(m.targets) THEN <<>>
  ELSE <<analyzeTarget(f, m.source, m.targets[i], m.kind)>> \o targetTasks(f, m, i + 1)

\* one ensure-source task per missing source, then one task per target
RECURSIVE mappingTasks(_, _, _, _)
mappingTasks(f, ms, i, seen) ==
  IF i > Len(ms) THEN <<>>
  ELSE LET m == ms[i]
           missing == ~pathExists(f, m.source) /\ m.source \notin seen
       IN  (IF missing THEN <<Task("ensure-source", <<>>, <<>>, m.kind, FALSE, m.source)>> ELSE <<>>)
           \o targetTasks(f, m, 1)
           \o mappingTasks(f, ms, i + 1, IF missing THEN seen \cup {m.source} ELSE seen)

buildLinkPlan(o, f) == mappingTasks(f, getMappings(o, f), 1, {})

Range(s) == {s[i] : i \in DOMAIN s}

\* ------------------------------------------------------------------ seeds
RECURSIVE AddAll(_, _)
AddAll(f, es) ==
  IF es = <<>> THEN f
  ELSE AddAll(writeNode(ensureDir(f, dirname(es[1][1])), es[1][1], es[1][2]), Tail(es))

EmptyFs == [q \in {} |-> DirNode]

DEFAULT_AGENTS == "default-agents"

NoPlan == [built |-> FALSE, tasks |-> <<>>, lastEdit |-> "none"]

NoSession ==
  [open |-> FALSE, dir |-> <<>>, createdAt |-> 0, scope |-> "", operation |-> "",
   entries |-> <<>>, seen |-> {}]

\* the canonical root: absent, initialised, or initialised with override files
CanonSeeds(r) ==
  LET base == << <<r.canonicalRoot \o <<"AGENTS.md">>, FileNode("agents")>>,
                 <<r.canonicalRoot \o <<"commands">>, DirNode>>,
                 <<r.canonicalRoot \o <<"hooks">>, DirNode>>,
                 <<r.canonicalRoot \o <<"skills">>, DirNode>> >>
  IN  { <<>>, base,
        base \o << <<r.canonicalRoot \o <<"CLAUDE.md">>, FileNode("claude")>> >>,
        base \o << <<r.canonicalRoot \o <<"CLAUDE.md">>, FileNode("claude")>>,
                    <<r.canonicalRoot \o <<"GEMINI.md">>, FileNode("gemini")>> >> }

ClaudeFileSeeds(r) ==
  LET t == r.claudeRoot \o <<"CLAUDE.md">>
  IN  { <<>>,
        << <<t, LinkNode(r.canonicalRoot \o <<"AGENTS.md">>)>> >>,
        << <<t, LinkNode(r.canonicalRoot \o <<"CLAUDE.md">>)>> >>,
        << <<t, FileNode("mine")>> >> }

GeminiFileSeeds(r) ==
  LET t == r.geminiRoot \o <<"GEMINI.md">>
  IN  { <<>>, << <<t, LinkNode(r.canonicalRoot \o <<"GEMINI.md">>)>> >> }

CodexPromptsSeeds(r) ==
  LET t == r.codexRoot \o <<"prompts">>
  IN  { <<>>,
        << <<t, DirNode>>, <<t \o <<"keep.md">>, FileNode("keep")>> >>,
        << <<t, LinkNode(r.canonicalRoot \o <<"commands">>)>> >> }

PlanSeeds(scope) ==
  LET r == resolveRoots(scope)
  IN  { AddAll(EmptyFs, a \o b \o c \o d) :
          a \in CanonSeeds(r), b \in ClaudeFileSeeds(r),
          c \in GeminiFileSeeds(r), d \in CodexPromptsSeeds(r) }

\* ------------------------------------------------------------------ backup.ts
MANIFEST_NAME == "manifest.json"

\* new Date().toISOString().replace(/[:.]/g, '-') at clock value n
Stamp(n) == <<"t00", "t01", "t02", "t03", "t04", "t05", "t06", "t07", "t08", "t09",
              "t10", "t11", "t12", "t13", "t14", "t15">>[n + 1]

Entry(originalPath, backupPath, kind, action) ==
  [originalPath |-> originalPath, backupPath |-> backupPath, kind |-> kind, action |-> action]

\* path.join(backupRoot, path.relative(root, target))
backupPathFor(target, backupRoot) == backupRoot \o target

hasParentPath_exactOnly(target, seen) == target \in seen

hasParentPath(target, seen) ==
  \E parent \in seen :
    \/ target = parent
    \/ Len(target) > Len(parent) /\ IsPrefix(parent, target)

backupSymlink_follow(f, target, dest) ==
  removePath(writeNode(ensureDir(f, dirname(dest)), dest, FileNode("followed")), target)

\* readlink, symlink at dest, unlink the original
backupSymlink(f, target, dest) ==
  removePath(symlink(ensureDir(f, dirname(dest)), f[target].c, dest), target)

\* rename, or copy then delete when the rename fails with EXDEV
backupPathImpl(f, target, dest, kind, xdev) ==
  LET g == ensureDir(f, dirname(dest))
  IN  IF ~xdev THEN rename(g, target, dest)
      ELSE IF kind = "dir" THEN removePath(copyDir(g, target, dest), target)
      ELSE removePath(copyFile(g, target, dest), target)

lstatKind(f, p) == IF f[p].k = "link" THEN "symlink" ELSE f[p].k

\* a world is the filesystem, the session held in memory and the last return value
World(f, s, ret) == [fs |-> f, s |-> s, ret |-> ret]

createBackupSession_withManifest(f, canonicalRoot, scope, operation, timestamp, createdAt) ==
  LET dir == canonicalRoot \o <<"backup", timestamp>>
  IN  [fs |-> writeNode(ensureDir(f, dir), dir \o <<MANIFEST_NAME>>, FileNode("manifest")),
       s |-> [open |-> TRUE, dir |-> dir, createdAt |-> createdAt, scope |-> scope,
              operation |-> operation, entries |-> <<>>, seen |-> {}],
       ret |-> TRUE]

createBackupSession(f, canonicalRoot, scope, operation, timestamp, createdAt) ==
  LET dir == canonicalRoot \o <<"backup", timestamp>>
  IN  World(ensureDir(f, dir),
            [open |-> TRUE, dir |-> dir, createdAt |-> createdAt, scope |-> scope,
             operation |-> operation, entries |-> <<>>, seen |-> {}],
            TRUE)

backupPath(w, target, xdev) ==
  IF ~pathExists(w.fs, target) THEN World(w.fs, w.s, FALSE)
  ELSE IF hasParentPath(target, w.s.seen) THEN World(w.fs, w.s, FALSE)
  ELSE LET kind == lstatKind(w.fs, target)
           dest == backupPathFor(target, w.s.dir)
           g == IF kind = "symlink" THEN backupSymlink(w.fs, target, dest)
                ELSE backupPathImpl(w.fs, target, dest, kind, xdev)
       IN  World(g,
                 [w.s EXCEPT !.entries = Append(@, Entry(target, dest, kind, "backup")),
                             !.seen = @ \cup {target}],
                 TRUE)

backupPathThrows_recorded(w, target) ==
  LET kind == lstatKind(w.fs, target)
      dest == backupPathFor(target, w.s.dir)
  IN  World(ensureDir(w.fs, dirname(dest)),
            [w.s EXCEPT !.entries = Append(@, Entry(target, dest, kind, "backup")),
                        !.seen = @ \cup {target}],
            FALSE)

\* backupPath reaches fs.promises.rename: the target exists, is not covered by a
\* recorded path and is not a symlink
renameReached(w, target) ==
  /\ pathExists(w.fs, target)
  /\ ~hasParentPath(target, w.s.seen)
  /\ lstatKind(w.fs, target) # "symlink"

\* backupPath when rename fails with a code other than EXDEV: backupPathImpl
\* rethrows after ensureDir, before the entry is pushed
backupPathThrows(w, target) ==
  World(ensureDir(w.fs, dirname(backupPathFor(target, w.s.dir))), w.s, FALSE)

recordCreatedPath_always(w, target, kind) ==
  World(w.fs,
        [w.s EXCEPT !.entries = Append(@, Entry(target, <<>>, kind, "create")),
                    !.seen = @ \cup {target}],
        TRUE)

recordCreatedPath(w, target, kind) ==
  IF hasParentPath(target, w.s.seen) THEN World(w.fs, w.s, FALSE)
  ELSE World(w.fs,
             [w.s EXCEPT !.entries = Append(@, Entry(target, <<>>, kind, "create")),
                         !.seen = @ \cup {target}],
             TRUE)

Manifest(s) ==
  [version |-> 1, createdAt |-> s.createdAt, scope |-> s.scope,
   operation |-> s.operation, entries |-> s.entries]

\* writeFile(session.manifestPath, JSON.stringify(manifest)): the file and its content
finalizeBackupFs(f, s) == writeNode(f, s.dir \o <<MANIFEST_NAME>>, FileNode("manifest"))

finalizeBackupManifests(m, s) ==
  (s.dir :> Manifest(s)) @@ m

\* the manifest of a backup directory, NoManifest when manifest.json is missing
NoManifest == [version |-> 0, createdAt |-> 0, scope |-> "", operation |-> "", entries |-> <<>>]

loadBackupManifest(f, m, dir) ==
  IF ~pathExists(f, dir \o <<MANIFEST_NAME>>) THEN NoManifest ELSE m[dir]

NoCall == [n |-> 0, op |-> "none", target |-> <<>>, ret |-> FALSE,
           fsBefore |-> EmptyFs, entriesBefore |-> <<>>, seenBefore |-> {},
           code |-> "", threw |-> FALSE]

\* ------------------------------------------------------------------ apply.ts
Some(p) == [ok |-> TRUE, path |-> p]

None == [ok |-> FALSE, path |-> <<>>]

createSource_none(f, task) == f

createSource_overwrite(f, task) ==
  IF task.kind = "dir" THEN ensureDir(removePath(f, task.path), task.path)
  ELSE writeNode(ensureDir(f, dirname(task.path)), task.path, FileNode(DEFAULT_AGENTS))

createSource(f, task) ==
  IF task.kind = "dir" THEN ensureDir(f, task.path)
  ELSE ensureFile(f, task.path, DEFAULT_AGENTS)

\* path.resolve(p).split(path.sep) of an absolute path: the first part is ''
splitPath(p) == <<"">> \o p

Min(S) == CHOOSE x \in S : \A y \in S : x <= y

RECURSIVE sharedSegments(_, _, _)
sharedSegments(splitPaths, i, minLen) ==
  IF i > minLen THEN <<>>
  ELSE LET segment == splitPaths[1][i]
       IN  IF segment = "" THEN <<>>
           ELSE IF \A k \in DOMAIN splitPaths : splitPaths[k][i] = segment
                THEN <<segment>> \o sharedSegments(splitPaths, i + 1, minLen)
                ELSE <<>>

commonPath(paths) ==
  IF Len(paths) = 0 THEN None
  ELSE LET splitPaths == [k \in DOMAIN paths |-> splitPath(paths[k])]
           minLen == Min({Len(splitPaths[k]) : k \in DOMAIN splitPaths})
           shared == sharedSegments(splitPaths, 1, minLen)
       IN  IF Len(shared) = 0 THEN None
           ELSE IF shared[1] = "" THEN Some(Tail(shared))
           ELSE Some(shared)

inferBackupDir(tasks, timestamp) ==
  LET sourceDirs ==
        [k \in DOMAIN tasks |->
           dirname(IF tasks[k].type = "ensure-source" THEN tasks[k].path ELSE tasks[k].source)]
      root == commonPath(sourceDirs)
  IN  IF ~root.ok THEN None ELSE Some(root.path \o <<"backup", timestamp>>)

backupTarget(f, target, backupDir, xdev) ==
  IF ~pathExists(f, target) THEN [fs |-> f, ret |-> FALSE]
  ELSE IF isSymlink(f, target) THEN [fs |-> f, ret |-> FALSE]
  ELSE LET dest == backupDir \o target
           g == ensureDir(f, dirname(dest))
       IN  [fs |-> IF ~xdev THEN rename(g, target, dest)
                   ELSE IF isDirectory(f, target)
                        THEN removePath(copyDir(g, target, dest), target)
                        ELSE removePath(copyFile(g, target, dest), target),
            ret |-> TRUE]

createLink_keepExisting(f, source, target, kind, force, backupDir, xdev) ==
  IF pathExists(f, target) THEN [fs |-> f, created |-> FALSE, backedUp |-> FALSE]
  ELSE [fs |-> symlink(ensureDir(f, dirname(target)), source, target),
        created |-> TRUE, backedUp |-> FALSE]

createLink_forced(f, source, target, kind, force, backupDir, xdev) ==
  [fs |-> symlink(ensureDir(removePath(f, target), dirname(target)), source, target),
   created |-> TRUE, backedUp |-> FALSE]

createLink(f, source, target, kind, force, backupDir, xdev) ==
  IF pathExists(f, target)
  THEN IF ~force THEN [fs |-> f, created |-> FALSE, backedUp |-> FALSE]
       ELSE LET b == IF backupDir.ok THEN backupTarget(f, target, backupDir.path, xdev)
                     ELSE [fs |-> f, ret |-> FALSE]
            IN  [fs |-> symlink(ensureDir(removePath(b.fs, target), dirname(target)), source, target),
                 created |-> TRUE, backedUp |-> b.ret]
  ELSE [fs |-> symlink(ensureDir(f, dirname(target)), source, target),
        created |-> TRUE, backedUp |-> FALSE]

replacesConflict_always(force, task) == task.target # task.source

replacesConflict_never(force, task) == FALSE

\* force && task.target !== task.source && task.kind
replacesConflict(force, task) == force /\ task.target # task.source

linkIsSkipped_never(before, force) == FALSE

\* before && !force
linkIsSkipped(before, force) == before /\ ~force

Counts_dropSkipped(f, applied, skipped, conflicts, backedUp) ==
  [fs |-> f, applied |-> applied, skipped |-> 0, conflicts |-> conflicts,
   backedUp |-> backedUp]

Counts(f, applied, skipped, conflicts, backedUp) ==
  [fs |-> f, applied |-> applied, skipped |-> skipped, conflicts |-> conflicts,
   backedUp |-> backedUp]

applyTask(a, task, force, backupDir, xdev) ==
  IF task.type = "conflict"
  THEN IF replacesConflict(force, task)
       THEN LET r == createLink(a.fs, task.source, task.target, task.kind, TRUE, backupDir, xdev)
            IN  Counts(r.fs, a.applied + 1, a.skipped, a.conflicts + 1,
                       a.backedUp + (IF r.backedUp THEN 1 ELSE 0))
       ELSE Counts(a.fs, a.applied, a.skipped, a.conflicts + 1, a.backedUp)
  ELSE IF task.type = "noop"
  THEN Counts(a.fs, a.applied, a.skipped + 1, a.conflicts, a.backedUp)
  ELSE IF task.type = "ensure-source"
  THEN Counts(createSource(a.fs, task), a.applied + 1, a.skipped, a.conflicts, a.backedUp)
  ELSE LET before == pathExists(a.fs, task.target)
           r == createLink(a.fs, task.source, task.target, task.kind, force, backupDir, xdev)
           skip == linkIsSkipped(before, force)
       IN  Counts(r.fs, a.applied + (IF skip THEN 0 ELSE 1), a.skipped + (IF skip THEN 1 ELSE 0),
                  a.conflicts, a.backedUp + (IF r.backedUp THEN 1 ELSE 0))

RECURSIVE applyTasks(_, _, _, _, _, _)
applyTasks(a, tasks, i, force, backupDir, xdev) ==
  IF i > Len(tasks) THEN a
  ELSE LET b == applyTask(a, tasks[i], force, backupDir, xdev)
       IN  IF b.applied >= 0 THEN applyTasks(b, tasks, i + 1, force, backupDir, xdev) ELSE b

\* applyLinkPlan(plan, { force, backupDir }); optDir is opts.backupDir
applyLinkPlan(f, tasks, force, optDir, timestamp, xdev) ==
  LET backupDir == IF ~force THEN None
                   ELSE IF optDir.ok THEN optDir
                   ELSE inferBackupDir(tasks, timestamp)
  IN  applyTasks(Counts(f, 0, 0, 0, 0), tasks, 1, force, backupDir, xdev)

\* ------------------------------------------------------------------ undo.ts
listBackupDirs(f, canonical) ==
  IF ~pathExists(f, canonical \o <<"backup">>) THEN {}
  ELSE {d \in Children(f, canonical \o <<"backup">>) : f[d].k = "dir"}

findLatestBackup_anyDir(f, m, canonical) ==
  {d \in listBackupDirs(f, canonical) :
     \A e \in listBackupDirs(f, canonical) :
       loadBackupManifest(f, m, e).createdAt <= loadBackupManifest(f, m, d).createdAt}

findLatestBackup_byName(f, m, canonical) ==
  LET withManifest ==
        {d \in listBackupDirs(f, canonical) : loadBackupManifest(f, m, d) # NoManifest}
      index(d) == CHOOSE n \in 0..15 : Stamp(n) = basename(d)
  IN  {d \in withManifest : \A e \in withManifest : index(e) <= index(d)}

findLatestBackup_oldest(f, m, canonical) ==
  LET withManifest ==
        {d \in listBackupDirs(f, canonical) : loadBackupManifest(f, m, d) # NoManifest}
  IN  {d \in withManifest :
         \A e \in withManifest :
           loadBackupManifest(f, m, d).createdAt <= loadBackupManifest(f, m, e).createdAt}

\* the directories findLatestBackup may return: those holding a manifest whose
\* createdAt sorts last (readdir order decides among equal createdAt)
findLatestBackup(f, m, canonical) ==
  LET withManifest ==
        {d \in listBackupDirs(f, canonical) : loadBackupManifest(f, m, d) # NoManifest}
  IN  {d \in withManifest :
         \A e \in withManifest :
           loadBackupManifest(f, m, e).createdAt <= loadBackupManifest(f, m, d).createdAt}

\* symlink() on an existing path, or rename() onto a non-empty directory or a
\* path of the other kind, throws
restoreThrows(f, entry) ==
  /\ entry.action = "backup" /\ entry.backupPath # <<>>
  /\ pathExists(f, entry.originalPath)
  /\ \/ entry.kind = "symlink"
     \/ f[entry.originalPath].k = "dir" /\ Under(f, entry.originalPath) # {entry.originalPath}
     \/ (f[entry.originalPath].k = "dir") # (entry.kind = "dir")

restoreSymlink(f, entry) ==
  IF entry.backupPath = <<>> THEN f
  ELSE removePath(symlink(ensureDir(f, dirname(entry.originalPath)),
                          f[entry.backupPath].c, entry.originalPath),
                  entry.backupPath)

restorePath_createOnly(f, entry, xdev) ==
  IF entry.action = "create" THEN removePath(f, entry.originalPath) ELSE f

restorePath(f, entry, xdev) ==
  IF entry.action = "create" THEN removePath(f, entry.originalPath)
  ELSE IF entry.backupPath = <<>> THEN f
  ELSE IF entry.kind = "symlink" THEN restoreSymlink(f, entry)
  ELSE LET g == ensureDir(f, dirname(entry.originalPath))
       IN  IF ~xdev THEN rename(g, entry.backupPath, entry.originalPath)
           ELSE removePath(copyTree(g, entry.backupPath, entry.originalPath), entry.backupPath)

backupExistingOriginals_none(w, entries, i, xdev) == w

RECURSIVE backupExistingOriginals(_, _, _, _)
backupExistingOriginals(w, entries, i, xdev) ==
  IF i > Len(entries) THEN w
  ELSE LET v == IF ~pathExists(w.fs, entries[i].originalPath) THEN w
                ELSE backupPath(w, entries[i].originalPath, xdev)
       IN  IF v.ret \in BOOLEAN THEN backupExistingOriginals(v, entries, i + 1, xdev) ELSE v

Restored(f, restored, restoredBackups, removedCreated, removedSymlinks, err) ==
  [fs |-> f, restored |-> restored, restoredBackups |-> restoredBackups,
   removedCreated |-> removedCreated, removedSymlinks |-> removedSymlinks, err |-> err]

restoreEntry_strict(a, entry, xdev) ==
  IF a.err THEN a
  ELSE IF entry.action = "create"
  THEN IF pathExists(a.fs, entry.originalPath)
       THEN Restored(restorePath(a.fs, entry, xdev), a.restored + 1, a.restoredBackups,
                     a.removedCreated + 1,
                     a.removedSymlinks + (IF entry.kind = "symlink" THEN 1 ELSE 0), FALSE)
       ELSE a
  ELSE IF entry.backupPath = <<>> THEN a
  ELSE IF ~pathExists(a.fs, entry.backupPath) THEN [a EXCEPT !.err = TRUE]
  ELSE IF restoreThrows(a.fs, entry) THEN [a EXCEPT !.err = TRUE]
  ELSE Restored(restorePath(a.fs, entry, xdev), a.restored + 1, a.restoredBackups + 1,
                a.removedCreated, a.removedSymlinks, FALSE)

restoreEntry(a, entry, xdev) ==
  IF a.err THEN a
  ELSE IF entry.action = "create"
  THEN IF pathExists(a.fs, entry.originalPath)
       THEN Restored(restorePath(a.fs, entry, xdev), a.restored + 1, a.restoredBackups,
                     a.removedCreated + 1,
                     a.removedSymlinks + (IF entry.kind = "symlink" THEN 1 ELSE 0), FALSE)
       ELSE a
  ELSE IF entry.backupPath = <<>> THEN a
  ELSE IF ~pathExists(a.fs, entry.backupPath) THEN a
  ELSE IF restoreThrows(a.fs, entry) THEN [a EXCEPT !.err = TRUE]
  ELSE Restored(restorePath(a.fs, entry, xdev), a.restored + 1, a.restoredBackups + 1,
                a.removedCreated, a.removedSymlinks, FALSE)

RECURSIVE restoreEntries(_, _, _, _)
restoreEntries(a, entries, i, xdev) ==
  IF i > Len(entries) THEN a
  ELSE LET b == restoreEntry(a, entries[i], xdev)
       IN  IF b.err \in BOOLEAN THEN restoreEntries(b, entries, i + 1, xdev) ELSE b

\* undoLastChange once findLatestBackup has returned the directory latest
undoLastChange(f, m, scope, latest, timestamp, createdAt, xdev) ==
  LET canonical == resolveRoots(scope).canonicalRoot
      entries == loadBackupManifest(f, m, latest).entries
      w0 == createBackupSession(f, canonical, scope, "undo", timestamp, createdAt)
      w1 == backupExistingOriginals(w0, entries, 1, xdev)
      r == restoreEntries(Restored(w1.fs, 0, 0, 0, 0, FALSE), entries, 1, xdev)
  IN  [fs |-> IF r.err THEN r.fs ELSE finalizeBackupFs(r.fs, w1.s),
       manifests |-> IF r.err THEN m ELSE finalizeBackupManifests(m, w1.s),
       s |-> w1.s, res |-> r, undoneDir |-> latest]

\* ------------------------------------------------------------------ migrate.ts
RECURSIVE SetToSeq(_)
SetToSeq(S) ==
  IF S = {} THEN <<>>
  ELSE LET x == CHOOSE y \in S : TRUE IN <<x>> \o SetToSeq(S \ {x})

RECURSIVE Flatten(_)
Flatten(ss) == IF ss = <<>> THEN <<>> ELSE Head(ss) \o Flatten(Tail(ss))

Candidate(label, targetPath, kind, action, sourcePath) ==
  [label |-> label, targetPath |-> targetPath, kind |-> kind, action |-> action,
   sourcePath |-> sourcePath]

NoChoice == Candidate("", <<>>, "file", "none", <<>>)

\* readdir(dir).filter(isFile), in directory order
listFiles(f, dir) == SetToSeq({q \in Children(f, dir) : f[q].k = "file"})

\* the sub-directories of dir that hold a SKILL.md
findSkillDirs(f, dir) ==
  SetToSeq({q \in Children(f, dir) :
              f[q].k = "dir" /\ pathExists(f, q \o <<"SKILL.md">>)
              /\ f[q \o <<"SKILL.md">>].k = "file"})

\* meta.name of a parsed SKILL.md
skillName(f, dir) == f[dir \o <<"SKILL.md">>].c[1]

scannable(f, p) == pathExists(f, p) /\ ~isSymlink(f, p)

dirCandidates(f, src, canonicalDir) ==
  IF ~scannable(f, src.dir) THEN <<>>
  ELSE LET files == listFiles(f, src.dir)
       IN  [k \in DOMAIN files |->
              Candidate(src.label, canonicalDir \o <<basename(files[k])>>, "file", "copy", files[k])]

skillCandidates(f, src, canonicalSkills) ==
  IF ~scannable(f, src.dir) THEN <<>>
  ELSE LET dirs == findSkillDirs(f, src.dir)
       IN  [k \in DOMAIN dirs |->
              Candidate(src.label, canonicalSkills \o <<skillName(f, dirs[k])>>, "dir", "copy", dirs[k])]

fileCandidates(f, src, canonicalFile) ==
  IF ~scannable(f, src.file) THEN <<>>
  ELSE <<Candidate(src.label, canonicalFile, "file", "copy", src.file)>>

Src(label, dir) == [label |-> label, dir |-> dir]

SrcFile(label, file) == [label |-> label, file |-> file]

\* every discovered candidate, in discovery order
discovered(f, scope) ==
  LET roots == resolveRoots(scope)
      canonical == roots.canonicalRoot
      commands == << Src("Claude commands", roots.claudeRoot \o <<"commands">>),
                     Src("Factory commands", roots.factoryRoot \o <<"commands">>),
                     Src("Codex prompts", roots.codexRoot \o <<"prompts">>),
                     Src("Cursor commands", roots.cursorRoot \o <<"commands">>) >>
      hooks == << Src("Claude hooks", roots.claudeRoot \o <<"hooks">>),
                  Src("Factory hooks", roots.factoryRoot \o <<"hooks">>) >>
      skills == << Src("Claude skills", roots.claudeRoot \o <<"skills">>),
                   Src("Factory skills", roots.factoryRoot \o <<"skills">>),
                   Src("Codex skills", roots.codexRoot \o <<"skills">>),
                   Src("Cursor skills", roots.cursorRoot \o <<"skills">>) >>
      agents == << SrcFile("Claude AGENTS.md", roots.claudeRoot \o <<"AGENTS.md">>),
                   SrcFile("Factory AGENTS.md", roots.factoryRoot \o <<"AGENTS.md">>),
                   SrcFile("Codex AGENTS.md", roots.codexRoot \o <<"AGENTS.md">>) >>
      claude == << SrcFile("Claude CLAUDE.md", roots.claudeRoot \o <<"CLAUDE.md">>) >>
  IN  Flatten([k \in DOMAIN commands |-> dirCandidates(f, commands[k], canonical \o <<"commands">>)])
      \o Flatten([k \in DOMAIN hooks |-> dirCandidates(f, hooks[k], canonical \o <<"hooks">>)])
      \o Flatten([k \in DOMAIN skills |-> skillCandidates(f, skills[k], canonical \o <<"skills">>)])
      \o Flatten([k \in DOMAIN agents |-> fileCandidates(f, agents[k], canonical \o <<"AGENTS.md">>)])
      \o Flatten([k \in DOMAIN claude |-> fileCandidates(f, claude[k], canonical \o <<"CLAUDE.md">>)])

\* the targets of the candidate map, in insertion order
RECURSIVE targetOrder(_, _, _)
targetOrder(cands, i, seen) ==
  IF i > Len(cands) THEN <<>>
  ELSE IF cands[i].targetPath \in seen THEN targetOrder(cands, i + 1, seen)
  ELSE <<cands[i].targetPath>> \o targetOrder(cands, i + 1, seen \cup {cands[i].targetPath})

isAuto_single(n, canonicalExists) == n = 1

\* list.length === 1 && !canonicalExists
isAuto(n, canonicalExists) == n = 1 /\ ~canonicalExists

candidateList_noKeep(f, cands, targetPath) ==
  LET forTarget(c) == c.targetPath = targetPath
  IN  SelectSeq(cands, forTarget)

\* the candidate list of one target, 'keep existing' first when the target exists
candidateList(f, cands, targetPath) ==
  LET forTarget(c) == c.targetPath = targetPath
      list == SelectSeq(cands, forTarget)
  IN  IF pathExists(f, targetPath)
      THEN <<Candidate("Keep existing (.agents)", targetPath,
                       IF isDirectory(f, targetPath) THEN "dir" ELSE "file", "keep", <<>>)>> \o list
      ELSE list

scanMigration(f, scope) ==
  LET cands == discovered(f, scope)
      targets == targetOrder(cands, 1, {})
      lists == [k \in DOMAIN targets |-> candidateList(f, cands, targets[k])]
      auto(k) == isAuto(Len(lists[k]), pathExists(f, targets[k]))
  IN  [auto |-> Flatten([k \in DOMAIN targets |-> IF auto(k) THEN <<lists[k][1]>> ELSE <<>>]),
       conflicts |-> Flatten([k \in DOMAIN targets |->
                      IF auto(k) THEN <<>>
                      ELSE <<[targetPath |-> targets[k], candidates |-> lists[k]]>>]),
       canonicalRoot |-> resolveRoots(scope).canonicalRoot]

copyCandidate_noRecord(w, candidate, xdev) ==
  IF candidate.action # "copy" \/ candidate.sourcePath = <<>> THEN World(w.fs, w.s, FALSE)
  ELSE World(IF candidate.kind = "file"
             THEN copyFile(w.fs, candidate.sourcePath, candidate.targetPath)
             ELSE copyDir(w.fs, candidate.sourcePath, candidate.targetPath),
             w.s, TRUE)

\* copyCandidate: back up or record the target, then copy the source onto it
copyCandidate(w, candidate, xdev) ==
  IF candidate.action # "copy" \/ candidate.sourcePath = <<>> THEN World(w.fs, w.s, FALSE)
  ELSE LET existed == pathExists(w.fs, candidate.targetPath)
           w1 == IF existed THEN backupPath(w, candidate.targetPath, xdev)
                 ELSE recordCreatedPath(w, candidate.targetPath,
                                        IF candidate.kind = "dir" THEN "dir" ELSE "file")
       IN  World(IF candidate.kind = "file"
                 THEN copyFile(w1.fs, candidate.sourcePath, candidate.targetPath)
                 ELSE copyDir(w1.fs, candidate.sourcePath, candidate.targetPath),
                 w1.s, TRUE)

Copied(w, copied, skipped) == [w |-> w, copied |-> copied, skipped |-> skipped]

RECURSIVE copyAuto(_, _, _, _)
copyAuto(a, auto, i, xdev) ==
  IF i > Len(auto) THEN a
  ELSE LET w == copyCandidate(a.w, auto[i], xdev)
       IN  IF w.ret
           THEN copyAuto(Copied(w, a.copied + 1, a.skipped), auto, i + 1, xdev)
           ELSE copyAuto(Copied(w, a.copied, a.skipped + 1), auto, i + 1, xdev)

\* selections.get(conflict.targetPath)
selected(selections, targetPath) ==
  IF targetPath \in DOMAIN selections THEN selections[targetPath] ELSE NoChoice

RECURSIVE copySelected_always(_, _, _, _, _)
copySelected_always(a, conflicts, i, selections, xdev) ==
  IF i > Len(conflicts) THEN a
  ELSE LET list == conflicts[i].candidates
           w == copyCandidate(a.w, list[Len(list)], xdev)
       IN  copySelected_always(Copied(w, a.copied + 1, a.skipped), conflicts, i + 1,
                               selections, xdev)

RECURSIVE copySelected(_, _, _, _, _)
copySelected(a, conflicts, i, selections, xdev) ==
  IF i > Len(conflicts) THEN a
  ELSE LET choice == selected(selections, conflicts[i].targetPath)
       IN  IF choice.action # "copy"
           THEN copySelected(Copied(a.w, a.copied, a.skipped + 1), conflicts, i + 1, selections, xdev)
           ELSE LET w == copyCandidate(a.w, choice, xdev)
                IN  IF w.ret
                    THEN copySelected(Copied(w, a.copied + 1, a.skipped), conflicts, i + 1, selections, xdev)
                    ELSE copySelected(Copied(w, a.copied, a.skipped + 1), conflicts, i + 1, selections, xdev)

applyMigration_planFirst(f, s, mplan, selections, scope, forceLinks, timestamp, xdev) ==
  LET linkPlan == buildLinkPlan([scope |-> scope, clients |-> {}, given |-> FALSE], f)
      a == copyAuto(Copied(World(f, s, FALSE), 0, 0), mplan.auto, 1, xdev)
      b == copySelected(a, mplan.conflicts, 1, selections, xdev)
      r == applyLinkPlan(b.w.fs, linkPlan, forceLinks, None, timestamp, xdev)
  IN  [fs |-> r.fs, s |-> b.w.s, copied |-> b.copied, skipped |-> b.skipped,
       mid |-> b.w.fs, tasks |-> linkPlan, link |-> r]

\* applyMigration(plan, selections, { scope, backup, forceLinks })
applyMigration(f, s, mplan, selections, scope, forceLinks, timestamp, xdev) ==
  LET a == copyAuto(Copied(World(f, s, FALSE), 0, 0), mplan.auto, 1, xdev)
      b == copySelected(a, mplan.conflicts, 1, selections, xdev)
      linkPlan == buildLinkPlan([scope |-> scope, clients |-> {}, given |-> FALSE], b.w.fs)
      r == applyLinkPlan(b.w.fs, linkPlan, forceLinks, None, timestamp, xdev)
  IN  [fs |-> r.fs, s |-> b.w.s, copied |-> b.copied, skipped |-> b.skipped,
       mid |-> b.w.fs, tasks |-> linkPlan, link |-> r]

\* ------------------------------------------------------------------ plan builds
OptsSet ==
  [scope : Scopes, clients : SUBSET Clients, given : {TRUE}]
  \cup [scope : Scopes, clients : {{}}, given : {FALSE}]

InitPlan ==
  /\ opts \in OptsSet
  /\ fs \in PlanSeeds(opts.scope)
  /\ plan = NoPlan
  /\ manifests = [d \in {} |-> NoManifest]
  /\ now = 0
  /\ hist = <<>>
  /\ session = NoSession
  /\ call = NoCall

\* buildLinkPlan(opts) on the current filesystem
BuildPlan ==
  /\ ~plan.built
  /\ plan' = [plan EXCEPT !.built = TRUE, !.tasks = buildLinkPlan(opts, fs)]
  /\ UNCHANGED <<fs, manifests, now, hist, opts, session, call>>

OverrideNames == {"CLAUDE.md", "GEMINI.md"}

\* the user writes a per-client override file into the canonical root
WriteOverride(n) ==
  LET p == resolveRoots(opts.scope).canonicalRoot \o <<n>>
  IN  /\ ~pathExists(fs, p)
      /\ fs' = writeNode(ensureDir(fs, dirname(p)), p, FileNode("override"))
      /\ plan' = [built |-> FALSE, tasks |-> <<>>, lastEdit |-> "write"]
      /\ UNCHANGED <<manifests, now, hist, opts, session, call>>

\* the user removes a per-client override file from the canonical root
RemoveOverride(n) ==
  LET p == resolveRoots(opts.scope).canonicalRoot \o <<n>>
  IN  /\ pathExists(fs, p)
      /\ fs' = removePath(fs, p)
      /\ plan' = [built |-> FALSE, tasks |-> <<>>, lastEdit |-> "remove"]
      /\ UNCHANGED <<manifests, now, hist, opts, session, call>>

NextPlan ==
  \/ BuildPlan
  \/ \E n \in OverrideNames : WriteOverride(n)
  \/ \E n \in OverrideNames : RemoveOverride(n)

SpecPlan == InitPlan /\ [][NextPlan]_vars

\* ------------------------------------------------------------------ one backup session, call by call
globalRoots == resolveRoots("global")

canonicalAgents == globalRoots.canonicalRoot \o <<"AGENTS.md">>

canonicalClaude == globalRoots.canonicalRoot \o <<"CLAUDE.md">>

canonicalGemini == globalRoots.canonicalRoot \o <<"GEMINI.md">>

claudeTarget == globalRoots.claudeRoot \o <<"CLAUDE.md">>

geminiTarget == globalRoots.geminiRoot \o <<"GEMINI.md">>

canonicalRoot == resolveRoots("global").canonicalRoot

skillAlpha == canonicalRoot \o <<"skills", "alpha">>

SessionBase ==
  << <<canonicalRoot \o <<"AGENTS.md">>, FileNode("agents")>>,
     <<canonicalRoot \o <<"commands">>, DirNode>>,
     <<skillAlpha, DirNode>>,
     <<skillAlpha \o <<"SKILL.md">>, FileNode("alpha")>>,
     <<homeDir \o <<".claude", "CLAUDE.md">>, LinkNode(canonicalRoot \o <<"AGENTS.md">>)>> >>

SessionSeeds ==
  { AddAll(EmptyFs, SessionBase \o x) :
      x \in { <<>>, << <<canonicalRoot \o <<"commands", "log.md">>, FileNode("log")>> >> } }

SessionTargets ==
  { canonicalRoot \o <<"skills">>, skillAlpha, skillAlpha \o <<"SKILL.md">>,
    canonicalRoot \o <<"commands", "log.md">>, homeDir \o <<".claude", "CLAUDE.md">> }

InitSession ==
  /\ opts = [scope |-> "global", clients |-> {}, given |-> FALSE]
  /\ now = 1
  /\ \E f \in SessionSeeds :
       LET w == createBackupSession(f, canonicalRoot, "global", "test", Stamp(0), 0)
       IN  fs = w.fs /\ session = w.s
  /\ manifests = [d \in {} |-> NoManifest]
  /\ hist = <<>>
  /\ plan = NoPlan
  /\ call = NoCall

CallRecord(op, target, ret) ==
  [n |-> call.n + 1, op |-> op, target |-> target, ret |-> ret,
   fsBefore |-> fs, entriesBefore |-> session.entries, seenBefore |-> session.seen,
   code |-> "", threw |-> FALSE]

\* backupPath(target, session); code is the error of fs.promises.rename, if any
BackupPath(target, code) ==
  /\ session.open /\ call.n < MaxCalls
  /\ LET v == World(fs, session, FALSE)
         threw == /\ renameReached(v, target)
                  /\ \/ code = "EACCES"
                     \/ code = "" /\ renameFails(fs, target, backupPathFor(target, session.dir))
         w == IF threw THEN backupPathThrows(v, target)
              ELSE backupPath(v, target, code = "EXDEV")
     IN  /\ fs' = w.fs
         /\ session' = w.s
         /\ call' = [CallRecord("backupPath", target, w.ret) EXCEPT !.code = code,
                                                                  !.threw = threw]
  /\ UNCHANGED <<manifests, now, hist, opts, plan>>

\* recordCreatedPath(target, kind, session)
RecordCreatedPath(target, kind) ==
  /\ session.open /\ call.n < MaxCalls
  /\ LET w == recordCreatedPath(World(fs, session, FALSE), target, kind)
     IN  /\ session' = w.s
         /\ call' = CallRecord("recordCreatedPath", target, w.ret)
  /\ UNCHANGED <<fs, manifests, now, hist, opts, plan>>

\* the running operation puts new content where nothing is (a copy or a new link)
PutNew(target, node) ==
  /\ session.open /\ call.n < MaxCalls
  /\ ~pathExists(fs, target)
  /\ fs' = writeNode(ensureDir(fs, dirname(target)), target, node)
  /\ call' = CallRecord("put", target, TRUE)
  /\ UNCHANGED <<manifests, now, hist, opts, plan, session>>

\* finalizeBackup(session)
FinalizeBackup ==
  /\ session.open
  /\ fs' = finalizeBackupFs(fs, session)
  /\ manifests' = finalizeBackupManifests(manifests, session)
  /\ session' = [session EXCEPT !.open = FALSE]
  /\ call' = CallRecord("finalizeBackup", <<>>, TRUE)
  /\ UNCHANGED <<now, hist, opts, plan>>

NextSession ==
  \/ \E t \in SessionTargets, code \in {"", "EXDEV", "EACCES"} : BackupPath(t, code)
  \/ \E t \in SessionTargets, k \in {"file", "dir"} : RecordCreatedPath(t, k)
  \/ \E t \in SessionTargets, n \in {FileNode("new"), LinkNode(canonicalRoot \o <<"commands">>)} :
       PutNew(t, n)
  \/ FinalizeBackup

SpecSession == InitSession /\ [][NextSession]_vars

\* ------------------------------------------------------------------ operations on one home directory
GlobalOpts == [scope |-> "global", clients |-> {}, given |-> FALSE]

codexPrompts == globalRoots.codexRoot \o <<"prompts">>

claudeCommands == globalRoots.claudeRoot \o <<"commands">>

factoryCommands == globalRoots.factoryRoot \o <<"commands">>

CanonicalSeeds ==
  LET base == << <<canonicalRoot \o <<"AGENTS.md">>, FileNode("agents")>>,
                 <<canonicalRoot \o <<"commands">>, DirNode>>,
                 <<canonicalRoot \o <<"hooks">>, DirNode>>,
                 <<canonicalRoot \o <<"skills">>, DirNode>> >>
  IN  { <<>>, base \o << <<canonicalRoot \o <<"commands", "log.md">>, FileNode("canonical")>> >> }

ClaudeCommandsSeeds ==
  { <<>>, << <<claudeCommands, DirNode>>, <<claudeCommands \o <<"log.md">>, FileNode("claude")>> >> }

FactoryCommandsSeeds ==
  { <<>>, << <<factoryCommands, DirNode>>, <<factoryCommands \o <<"log.md">>, FileNode("factory")>> >> }

CodexSeeds ==
  { <<>>,
    << <<codexPrompts, DirNode>>, <<codexPrompts \o <<"keep.md">>, FileNode("keep")>> >>,
    << <<codexPrompts, LinkNode(homeDir \o <<"old-prompts">>)>> >> }

ClaudeMdSeeds ==
  { <<>>,
    << <<claudeTarget, FileNode("mine")>> >>,
    << <<claudeTarget, LinkNode(canonicalAgents)>> >> }

\* a Claude skill named alpha, alone or beside a canonical skill of that name
SkillsSeeds ==
  LET claudeAlpha == globalRoots.claudeRoot \o <<"skills", "alpha">>
      client == << <<claudeAlpha \o <<"SKILL.md">>, FileNode("alpha")>>,
                   <<claudeAlpha \o <<"notes.md">>, FileNode("claude")>> >>
      canon == << <<canonicalRoot \o <<"AGENTS.md">>, FileNode("agents")>>,
                  <<skillAlpha \o <<"SKILL.md">>, FileNode("alpha")>> >>
  IN  { client, canon \o client }

MainSeeds ==
  { AddAll(EmptyFs, a \o b \o c \o d \o e) :
      a \in CanonicalSeeds, b \in ClaudeCommandsSeeds, c \in FactoryCommandsSeeds,
      d \in CodexSeeds, e \in ClaudeMdSeeds }
  \cup { AddAll(EmptyFs, a) : a \in SkillsSeeds }
  \cup { AddAll(EmptyFs, << <<globalRoots.claudeRoot \o <<"AGENTS.md">>, FileNode("claude-agents")>> >>) }

NoRes == [applied |-> 0, skipped |-> 0, conflicts |-> 0, backedUp |-> 0, restored |-> 0,
          restoredBackups |-> 0, removedCreated |-> 0, removedSymlinks |-> 0,
          copied |-> 0, mskipped |-> 0, err |-> FALSE, threw |-> FALSE]

LinkRes(r) == [NoRes EXCEPT !.applied = r.applied, !.skipped = r.skipped,
                            !.conflicts = r.conflicts, !.backedUp = r.backedUp]

\* what is remembered of a completed operation
OpRec(op, force, pre, mid, post, tasks, res, entries, undone, undoneDir, dir, selections) ==
  [op |-> op, force |-> force, pre |-> pre, mid |-> mid, post |-> post, tasks |-> tasks,
   res |-> res, entries |-> entries, undone |-> undone, undoneDir |-> undoneDir, dir |-> dir,
   selections |-> selections]

Init ==
  /\ opts = GlobalOpts
  /\ fs \in MainSeeds
  /\ manifests = [d \in {} |-> NoManifest]
  /\ now = 1
  /\ hist = <<>>
  /\ plan = NoPlan
  /\ session = NoSession
  /\ call = NoCall

\* buildLinkPlan, createBackupSession, applyLinkPlan(plan, { force, backup }),
\* finalizeBackup: applyLinkPlan reads force and backupDir only
ApplyLinks(force, xdev) ==
  /\ Len(hist) < MaxOps
  /\ \E tasks \in {buildLinkPlan(opts, fs)} :
     \E w0 \in {createBackupSession(fs, canonicalRoot, "global", "test", Stamp(now), now)} :
     \E r \in {applyLinkPlan(w0.fs, tasks, force, None, Stamp(now), xdev)} :
       /\ fs' = finalizeBackupFs(r.fs, w0.s)
       /\ manifests' = finalizeBackupManifests(manifests, w0.s)
       /\ hist' = Append(hist, OpRec("apply", force, fs, fs, fs', tasks, LinkRes(r),
                                     w0.s.entries, <<>>, <<>>, w0.s.dir, <<>>))
  /\ now' = now + 1
  /\ UNCHANGED <<opts, plan, session, call>>

\* the force-apply screen: applyLinkPlan(plan, { force: true, backupDir })
ForceApplyWithBackupDir(xdev) ==
  /\ Len(hist) < MaxOps
  /\ \E tasks \in {buildLinkPlan(opts, fs)} :
     \E dir \in {canonicalRoot \o <<"backup", Stamp(now)>>} :
     \E r \in {applyLinkPlan(fs, tasks, TRUE, Some(dir), Stamp(now), xdev)} :
       /\ fs' = r.fs
       /\ hist' = Append(hist, OpRec("force-apply", TRUE, fs, fs, fs', tasks, LinkRes(r),
                                     <<>>, <<>>, <<>>, dir, <<>>))
  /\ now' = now + 1
  /\ UNCHANGED <<manifests, opts, plan, session, call>>

MaxPick == 3

\* the caller's selections: the pick-th candidate of every conflict, if it has one
Selections(mplan, pick) ==
  [t \in {mplan.conflicts[k].targetPath : k \in DOMAIN mplan.conflicts} |->
     LET c == CHOOSE c \in Range(mplan.conflicts) : c.targetPath = t
     IN  IF pick \in DOMAIN c.candidates THEN c.candidates[pick] ELSE NoChoice]

\* scanMigration, createBackupSession, applyMigration, finalizeBackup
Migrate(forceLinks, pick, xdev) ==
  /\ Len(hist) < MaxOps
  /\ \E mplan \in {scanMigration(fs, "global")} :
     \E w0 \in {createBackupSession(fs, canonicalRoot, "global", "test", Stamp(now), now)} :
     \E r \in {applyMigration(w0.fs, w0.s, mplan, Selections(mplan, pick), "global",
                               forceLinks, Stamp(now), xdev)} :
       /\ fs' = finalizeBackupFs(r.fs, r.s)
       /\ manifests' = finalizeBackupManifests(manifests, r.s)
       /\ hist' = Append(hist, OpRec("migrate", forceLinks, fs, r.mid, fs', r.tasks,
                                     [LinkRes(r.link) EXCEPT !.copied = r.copied,
                                                             !.mskipped = r.skipped],
                                     r.s.entries, <<>>, <<>>, r.s.dir,
                                     Selections(mplan, pick)))
  /\ now' = now + 1
  /\ UNCHANGED <<opts, plan, session, call>>

\* undoLastChange({ scope })
Undo(xdev) ==
  /\ Len(hist) < MaxOps
  /\ \E latest \in findLatestBackup(fs, manifests, canonicalRoot) :
       \E u \in {undoLastChange(fs, manifests, "global", latest, Stamp(now), now, xdev)} :
           /\ fs' = u.fs
           /\ manifests' = u.manifests
           /\ hist' = Append(hist, OpRec("undo", FALSE, fs, fs, fs', <<>>,
                                         [NoRes EXCEPT !.restored = u.res.restored,
                                                       !.restoredBackups = u.res.restoredBackups,
                                                       !.removedCreated = u.res.removedCreated,
                                                       !.removedSymlinks = u.res.removedSymlinks,
                                                       !.err = u.res.err],
                                         u.s.entries, loadBackupManifest(fs, manifests, latest).entries,
                                         latest, u.s.dir, <<>>))
  /\ now' = now + 1
  /\ UNCHANGED <<opts, plan, session, call>>

\* the user adds or removes <canonical>/CLAUDE.md between two runs
EditOverride ==
  /\ Len(hist) < MaxOps
  /\ fs' = IF pathExists(fs, canonicalClaude) THEN removePath(fs, canonicalClaude)
           ELSE writeNode(ensureDir(fs, canonicalRoot), canonicalClaude, FileNode("override"))
  /\ hist' = Append(hist, OpRec("edit", FALSE, fs, fs, fs', <<>>, NoRes, <<>>, <<>>, <<>>, <<>>, <<>>))
  /\ UNCHANGED <<manifests, now, opts, plan, session, call>>

Next ==
  \/ \E force \in BOOLEAN, xdev \in BOOLEAN : ApplyLinks(force, xdev)
  \/ \E xdev \in BOOLEAN : ForceApplyWithBackupDir(xdev)
  \/ \E forceLinks \in BOOLEAN, pick \in 0..MaxPick, xdev \in BOOLEAN :
       Migrate(forceLinks, pick, xdev)
  \/ \E xdev \in BOOLEAN : Undo(xdev)
  \/ EditOverride

Spec == Init /\ [][Next]_vars

\* ------------------------------------------------------------------ claims

\* an operation that ran with a backup session and finalized its manifest
Finalized(i) == hist[i].op \in {"apply", "migrate"}

\* an apply of a link plan
LinkApply(i) == hist[i].op \in {"apply", "force-apply"}

\* operation i + 1 is an undoLastChange that completed and undid operation i's manifest
UndoneBy(i) ==
  /\ i + 1 <= Len(hist)
  /\ hist[i + 1].op = "undo"
  /\ hist[i + 1].undoneDir = hist[i].dir

BackupEntries(i) == {e \in Range(hist[i].entries) : e.action = "backup"}

CreateEntries(i) == {e \in Range(hist[i].entries) : e.action = "create"}

\* C1: when an operation (link apply or migration) has finalized its manifest
\* and undoLastChange follows, every 'backup' entry's originalPath holds
\* exactly what it held before the operation, and nothing is left at the
\* originalPath of any 'create' entry.
C1_UndoRoundTrip ==
  \A i \in 1..Len(hist) :
    (Finalized(i) /\ UndoneBy(i)) =>
      /\ ~hist[i + 1].res.err
      /\ \A e \in BackupEntries(i) :
           /\ pathExists(hist[i + 1].post, e.originalPath)
           /\ Subtree(hist[i + 1].post, e.originalPath) = Subtree(hist[i].pre, e.originalPath)
      /\ \A e \in CreateEntries(i) : Under(hist[i + 1].post, e.originalPath) = {}

\* C1 witness: a migration that overwrote one canonical file with different
\* content and created another, then an undo that restored the first.
C1_Witness ==
  \E i \in 1..Len(hist) :
    /\ hist[i].op = "migrate" /\ UndoneBy(i)
    /\ CreateEntries(i) # {}
    /\ \E e \in BackupEntries(i) :
         /\ Subtree(hist[i].post, e.originalPath) # Subtree(hist[i].pre, e.originalPath)
         /\ Subtree(hist[i + 1].post, e.originalPath) = Subtree(hist[i].pre, e.originalPath)
    /\ hist[i + 1].res.restoredBackups > 0

\* a link target that is a real directory holding files
RealDirWithFiles(f, p) == isDirectory(f, p) /\ Children(f, p) # {}

\* C2: a forced applyLinkPlan (backup session supplied and finalized) over a
\* link target that is a real directory holding files, followed by
\* undoLastChange, leaves the target a real directory with the same files and
\* the undo reports restored > 0.
C2_ForceApplyUndoRestoresDirectory ==
  \A i \in 1..Len(hist) :
    (hist[i].op = "apply" /\ hist[i].force /\ UndoneBy(i)) =>
      \A t \in Range(hist[i].tasks) :
        (t.type # "ensure-source" /\ RealDirWithFiles(hist[i].pre, t.target)) =>
          /\ isDirectory(hist[i + 1].post, t.target)
          /\ Subtree(hist[i + 1].post, t.target) = Subtree(hist[i].pre, t.target)
          /\ hist[i + 1].res.restored > 0

\* the paths that existed before operation i and are gone or hold something
\* else after it
Destroyed(i) ==
  {p \in DOMAIN hist[i].pre : p \notin DOMAIN hist[i].post \/ hist[i].post[p] # hist[i].pre[p]}

\* C3: in every applyLinkPlan or applyMigration run with a backup session, a
\* path that existed before and is removed or overwritten lies in the backup
\* tree under a 'backup' entry of the session whose manifest is finalized.
C3_BackupBeforeReplace ==
  \A i \in 1..Len(hist) :
    Finalized(i) =>
      \A p \in Destroyed(i) :
        \E e \in BackupEntries(i) :
          /\ IsPrefix(e.originalPath, p)
          /\ Subtree(hist[i].post, e.backupPath) = Subtree(hist[i].pre, e.originalPath)

ConflictTasks(i) == {k \in DOMAIN hist[i].tasks : hist[i].tasks[k].type = "conflict"}

\* C4: when applyLinkPlan runs without force, the path at the target of every
\* 'conflict' task has the same kind and content after the apply as before
\* it, and the conflict tasks are counted in 'conflicts' and nowhere else.
C4_ConflictUntouchedWithoutForce ==
  \A i \in 1..Len(hist) :
    ((LinkApply(i) \/ hist[i].op = "migrate") /\ ~hist[i].force) =>
      /\ \A k \in ConflictTasks(i) :
           /\ pathExists(hist[i].post, hist[i].tasks[k].target)
           /\ Subtree(hist[i].post, hist[i].tasks[k].target)
                = Subtree(hist[i].mid, hist[i].tasks[k].target)
      /\ hist[i].res.conflicts = Cardinality(ConflictTasks(i))
      /\ hist[i].res.applied + hist[i].res.skipped
           = Len(hist[i].tasks) - Cardinality(ConflictTasks(i))

\* C4 witness: an apply without force whose plan has a conflict on a real
\* directory holding files, next to tasks that were applied.
C4_Witness ==
  \E i \in 1..Len(hist) :
    /\ hist[i].op = "apply" /\ ~hist[i].force
    /\ hist[i].res.applied > 0
    /\ \E k \in ConflictTasks(i) : RealDirWithFiles(hist[i].pre, hist[i].tasks[k].target)

\* C5: an apply that directly follows an apply (its plan rebuilt from the
\* state the first one left, the same options or force dropped) returns
\* applied = 0.
C5_SecondApplyAppliesNothing ==
  \A i \in 1..Len(hist) :
    ( /\ i + 1 <= Len(hist)
      /\ LinkApply(i) /\ LinkApply(i + 1)
      /\ hist[i + 1].force => hist[i].force )
    => hist[i + 1].res.applied = 0

\* C5 witness: two applies in a row, the first of which applied tasks and
\* skipped an existing symlink, left a conflict in place.
C5_Witness ==
  \E i \in 1..Len(hist) :
    /\ i + 1 <= Len(hist)
    /\ hist[i].op = "apply" /\ hist[i + 1].op = "apply"
    /\ ~hist[i].force /\ ~hist[i + 1].force
    /\ hist[i].res.applied > 0 /\ hist[i].res.conflicts > 0
    /\ hist[i + 1].res.skipped > 0 /\ hist[i + 1].res.applied = 0

\* C6: after an operation, an undoLastChange and a second undoLastChange, the
\* second undo has reversed the first undo's session: every path named in the
\* operation's manifest is as it was right after the operation.
C6_UndoIsUndoable ==
  \A i \in 1..Len(hist) :
    (Finalized(i) /\ UndoneBy(i) /\ UndoneBy(i + 1)) =>
      \A e \in Range(hist[i].entries) :
        Subtree(hist[i + 2].post, e.originalPath) = Subtree(hist[i].post, e.originalPath)

\* C6 witness: a migration with a 'backup' and a 'create' entry, an undo that
\* changed both paths, and a second undo that undid the first.
C6_Witness ==
  \E i \in 1..Len(hist) :
    /\ hist[i].op = "migrate" /\ UndoneBy(i) /\ UndoneBy(i + 1)
    /\ BackupEntries(i) # {} /\ CreateEntries(i) # {}
    /\ \A e \in Range(hist[i].entries) :
         /\ Subtree(hist[i + 1].post, e.originalPath) # Subtree(hist[i].post, e.originalPath)
         /\ Subtree(hist[i + 2].post, e.originalPath) = Subtree(hist[i].post, e.originalPath)

TasksAt(tasks, target) == {t \in Range(tasks) : t.type # "ensure-source" /\ t.target = target}

\* C7: in global scope a plan build routes the Claude mapping to
\* <canonical>/CLAUDE.md iff that file exists at build time and to
\* <canonical>/AGENTS.md otherwise (likewise GEMINI.md for Gemini); and once
\* the override is removed while the client file is still a symlink to it,
\* the next plan holds a link task for the client file with source AGENTS.md.
C7_OverridePrecedence ==
  (plan.built /\ opts.scope = "global") =>
    /\ "claude" \in defaultClients(opts) =>
          /\ TasksAt(plan.tasks, claudeTarget) # {}
          /\ \A t \in TasksAt(plan.tasks, claudeTarget) :
                t.source = IF pathExists(fs, canonicalClaude) THEN canonicalClaude ELSE canonicalAgents
    /\ "gemini" \in defaultClients(opts) =>
          /\ TasksAt(plan.tasks, geminiTarget) # {}
          /\ \A t \in TasksAt(plan.tasks, geminiTarget) :
                t.source = IF pathExists(fs, canonicalGemini) THEN canonicalGemini ELSE canonicalAgents
    /\ ( /\ "claude" \in defaultClients(opts)
         /\ plan.lastEdit = "remove"
         /\ ~pathExists(fs, canonicalClaude)
         /\ isSymlink(fs, claudeTarget) /\ fs[claudeTarget].c = canonicalClaude )
        => \E t \in TasksAt(plan.tasks, claudeTarget) :
             t.type = "link" /\ t.source = canonicalAgents

\* C7 witness: a plan built right after the removal of <canonical>/CLAUDE.md
\* while ~/.claude/CLAUDE.md still links to it, GEMINI.md still present.
C7_Witness ==
  /\ plan.built /\ opts.scope = "global" /\ plan.lastEdit = "remove"
  /\ {"claude", "gemini"} \subseteq defaultClients(opts)
  /\ ~pathExists(fs, canonicalClaude) /\ pathExists(fs, canonicalGemini)
  /\ isSymlink(fs, claudeTarget) /\ fs[claudeTarget].c = canonicalClaude
  /\ \E t \in TasksAt(plan.tasks, claudeTarget) : t.type = "link" /\ t.replaceSymlink

\* the user has just created <canonical>/CLAUDE.md while ~/.claude/CLAUDE.md
\* was a symlink to <canonical>/AGENTS.md
ClaudeOverrideAdded(i) ==
  /\ hist[i].op = "edit"
  /\ ~pathExists(hist[i].pre, canonicalClaude) /\ pathExists(hist[i].post, canonicalClaude)
  /\ pathExists(hist[i].pre, claudeTarget)
  /\ hist[i].pre[claudeTarget] = LinkNode(canonicalAgents)

AgentsLinks == {globalRoots.factoryRoot \o <<"AGENTS.md">>, globalRoots.codexRoot \o <<"AGENTS.md">>}

\* C8: when ~/.claude/CLAUDE.md links to <canonical>/AGENTS.md and
\* <canonical>/CLAUDE.md is then created, a new plan applied without force
\* reports applied > 0 and leaves ~/.claude/CLAUDE.md a symlink to
\* <canonical>/CLAUDE.md, the Factory and Codex AGENTS.md links unchanged.
C8_RelinkWhenOverrideAdded ==
  \A i \in 1..Len(hist) :
    ( /\ i + 1 <= Len(hist)
      /\ ClaudeOverrideAdded(i)
      /\ hist[i + 1].op = "apply" /\ ~hist[i + 1].force )
    => /\ hist[i + 1].res.applied > 0
       /\ hist[i + 1].post[claudeTarget] = LinkNode(canonicalClaude)
       /\ \A l \in AgentsLinks :
            (pathExists(hist[i].pre, l) /\ hist[i].pre[l] = LinkNode(canonicalAgents))
              => hist[i + 1].post[l] = LinkNode(canonicalAgents)

InstructionFiles == {"AGENTS.md", "CLAUDE.md", "GEMINI.md"}

IsInstructionFile(p) == p # <<>> /\ basename(p) \in InstructionFiles

\* C9: a plan built for project scope, whatever the filesystem and the client
\* selection, has no task whose source, target or ensure-source path is an
\* instructions file; every task is about the canonical commands, hooks or
\* skills directory.
C9_ProjectScopeIsolation ==
  (plan.built /\ opts.scope = "project") =>
    \A t \in Range(plan.tasks) :
      /\ ~IsInstructionFile(t.source) /\ ~IsInstructionFile(t.target) /\ ~IsInstructionFile(t.path)
      /\ t.kind = "dir"
      /\ (IF t.type = "ensure-source" THEN t.path ELSE t.source)
           \in {resolveRoots("project").canonicalRoot \o <<d>> : d \in {"commands", "hooks", "skills"}}

\* C9 witness: a project-scope plan with tasks, built while the project's
\* canonical root holds AGENTS.md and CLAUDE.md and every client is selected.
C9_Witness ==
  /\ plan.built /\ opts.scope = "project" /\ defaultClients(opts) = Clients
  /\ pathExists(fs, resolveRoots("project").canonicalRoot \o <<"CLAUDE.md">>)
  /\ pathExists(fs, resolveRoots("project").canonicalRoot \o <<"AGENTS.md">>)
  /\ Len(plan.tasks) > 0

\* C10: within one session, once backupPath has recorded a directory D, a
\* later backupPath call on D or on a path beneath D returns false, appends
\* no entry and moves nothing.
C10_NoNestedBackup ==
  ( /\ call.op = "backupPath"
    /\ \E e \in Range(call.entriesBefore) :
         e.action = "backup" /\ e.kind = "dir" /\ IsPrefix(e.originalPath, call.target) )
  => /\ call.ret = FALSE
     /\ session.entries = call.entriesBefore
     /\ fs = call.fsBefore

\* C10 witness: backupPath is called on a path that exists again beneath an
\* already backed-up directory, and on the directory itself once it exists again.
C10_Witness ==
  /\ call.op = "backupPath" /\ call.ret = FALSE
  /\ pathExists(call.fsBefore, call.target)
  /\ \E e \in Range(call.entriesBefore) :
       /\ e.action = "backup" /\ e.kind = "dir"
       /\ IsPrefix(e.originalPath, call.target) /\ Len(call.target) > Len(e.originalPath)
       /\ pathExists(call.fsBefore, e.originalPath)

\* C11: in every state of a backup session, whatever the order of the
\* backupPath and recordCreatedPath calls, no entry's originalPath is a parent
\* directory of another entry's originalPath.
C11_NoParentChildEntries ==
  \A i, j \in DOMAIN session.entries :
    ~ ( /\ Len(session.entries[i].originalPath) < Len(session.entries[j].originalPath)
        /\ IsPrefix(session.entries[i].originalPath, session.entries[j].originalPath) )

\* ------------------------------------------------------------------ preflight.ts
needsLinkBackup(f, task, forceLinks) ==
  IF task.type = "conflict" THEN forceLinks /\ task.target # task.source
  ELSE IF task.type # "link" THEN FALSE
  ELSE IF ~pathExists(f, task.target) THEN FALSE
  ELSE IF forceLinks THEN TRUE
  ELSE IF ~task.replaceSymlink THEN FALSE
  ELSE isSymlink(f, task.target)

\* plan.auto, then the selected candidate of every conflict when it is a copy
collectMigrationCandidates(mplan, selections) ==
  LET isCopy(c) == c.action = "copy"
      choices == [k \in DOMAIN mplan.conflicts |->
                    selected(selections, mplan.conflicts[k].targetPath)]
  IN  mplan.auto \o SelectSeq(choices, isCopy)

\* the set of paths preflightBackup collects before it probes them
preflightTargets(f, linkTasks, mplan, selections, forceLinks) ==
  {t.target : t \in {t \in Range(linkTasks) : needsLinkBackup(f, t, forceLinks)}}
  \cup {c.targetPath : c \in {c \in Range(collectMigrationCandidates(mplan, selections)) :
                                pathExists(f, c.targetPath)}}

\* for (const target of targets): lstat, readlink, ensureDir(dirname(dest)), access
RECURSIVE preflightProbe(_, _, _, _)
preflightProbe(f, s, targets, i) ==
  IF i > Len(targets) THEN f
  ELSE IF ~pathExists(f, targets[i]) THEN preflightProbe(f, s, targets, i + 1)
  ELSE LET g == ensureDir(f, dirname(backupPathFor(targets[i], s.dir)))
       IN  IF g = f THEN preflightProbe(f, s, targets, i + 1)
           ELSE preflightProbe(g, s, targets, i + 1)

preflightBackup(f, s, linkTasks, mplan, selections, forceLinks) ==
  LET targets == preflightTargets(f, linkTasks, mplan, selections, forceLinks)
  IN  [fs |-> preflightProbe(f, s, SetToSeq(targets), 1), targets |-> Cardinality(targets)]

\* ------------------------------------------------------------------ the change flow
\* The status screen's "change to .agents" flow, one await at a time, beside
\* undoLastChange run from a second process while the first one is idle or
\* shows its plan. createdAt is the clock value: toISOString() strings have a
\* fixed width, so their lexical order is the order of the clock.
MaxChanges == 2

MaxUndos == 2

MaxLost == 1

NoMigration == [auto |-> <<>>, conflicts |-> <<>>, canonicalRoot |-> <<>>]

\* the screen's state: step, changePlan and the options of the running apply
NoChange ==
  [pc |-> "idle", timestamp |-> "", migrate |-> NoMigration, link |-> <<>>,
   forceLinks |-> FALSE, selections |-> <<>>, pre |-> EmptyFs, mid |-> EmptyFs,
   tasks |-> <<>>, res |-> NoRes, changes |-> 0, undos |-> 0, lost |-> 0]

ChangeSeeds ==
  { AddAll(EmptyFs, a \o b \o c \o d) :
      a \in CanonicalSeeds, b \in ClaudeCommandsSeeds \ {<<>>},
      c \in FactoryCommandsSeeds \ {<<>>}, d \in {s \in CodexSeeds : Len(s) = 2} }

InitChange ==
  /\ fs \in ChangeSeeds
  /\ manifests = <<>>
  /\ now = 0
  /\ hist = <<>>
  /\ opts = GlobalOpts
  /\ plan = NoChange
  /\ session = NoSession
  /\ call = NoCall

onSelect_always(pc) == {"change", "undo", "apply"}

\* the operations the SelectInput of the rendered step can start: pc "idle" is
\* step 'action', "planned" is 'confirm-change' or 'migrate-choice', and every
\* later pc is step 'applying', which renders a spinner and no SelectInput
onSelect(pc) ==
  IF pc = "idle" THEN {"change", "undo"}
  ELSE IF pc = "planned" THEN {"apply"}
  ELSE {}

\* setChangePlan({ migrate, link, timestamp, ... })
PlanChange ==
  /\ "change" \in onSelect(plan.pc)
  /\ plan.changes < MaxChanges
  /\ plan' = [plan EXCEPT !.pc = "planned", !.timestamp = Stamp(now),
                          !.migrate = scanMigration(fs, "global"),
                          !.link = buildLinkPlan(GlobalOpts, fs),
                          !.changes = @ + 1]
  /\ now' = now + 1
  /\ UNCHANGED <<fs, manifests, hist, opts, session, call>>

\* createBackupSession({ ..., operation: 'change-to-agents', timestamp: changePlan.timestamp })
StartChange(forceLinks, pick) ==
  /\ "apply" \in onSelect(plan.pc)
  /\ \E w \in {createBackupSession(fs, canonicalRoot, "global", "change-to-agents",
                                   plan.timestamp, now)} :
       /\ fs' = w.fs
       /\ session' = w.s
  /\ plan' = [plan EXCEPT !.pc = "preflight", !.forceLinks = forceLinks,
                          !.selections = Selections(plan.migrate, pick), !.pre = fs]
  /\ now' = now + 1
  /\ UNCHANGED <<manifests, hist, opts, call>>

\* preflightBackup({ backup, linkPlan, migratePlan, selections, forceLinks })
Preflight ==
  /\ plan.pc = "preflight"
  /\ \E r \in {preflightBackup(fs, session, plan.link, plan.migrate, plan.selections,
                               plan.forceLinks)} :
       /\ fs' = r.fs
       /\ call' = [NoCall EXCEPT !.n = r.targets, !.op = "preflightBackup", !.ret = TRUE,
                                 !.fsBefore = fs]
  /\ plan' = [plan EXCEPT !.pc = "apply"]
  /\ UNCHANGED <<manifests, now, hist, opts, session>>

\* applyMigration(migrate, selections, { scope, backup, forceLinks })
ApplyChange(xdev) ==
  /\ plan.pc = "apply"
  /\ \E r \in {applyMigration(fs, session, plan.migrate, plan.selections, "global",
                              plan.forceLinks, Stamp(now), xdev)} :
       /\ fs' = r.fs
       /\ session' = r.s
       /\ plan' = [plan EXCEPT !.pc = "finalize", !.mid = r.mid, !.tasks = r.tasks,
                               !.res = [LinkRes(r.link) EXCEPT !.copied = r.copied,
                                                               !.mskipped = r.skipped]]
  /\ now' = now + 1
  /\ UNCHANGED <<manifests, hist, opts, call>>

\* finalizeBackup(backup)
FinalizeChange ==
  /\ plan.pc = "finalize"
  /\ fs' = finalizeBackupFs(fs, session)
  /\ manifests' = finalizeBackupManifests(manifests, session)
  /\ hist' = Append(hist, OpRec("migrate", plan.forceLinks, plan.pre, plan.mid, fs',
                                plan.tasks, plan.res, session.entries, <<>>, <<>>,
                                session.dir, plan.selections))
  /\ plan' = [NoChange EXCEPT !.changes = plan.changes, !.undos = plan.undos,
                              !.lost = plan.lost]
  /\ session' = NoSession
  /\ UNCHANGED <<now, opts, call>>

\* the process is killed, or the plan is dismissed, before finalizeBackup ran
Kill ==
  /\ plan.pc # "idle"
  /\ plan' = [NoChange EXCEPT !.changes = plan.changes, !.undos = plan.undos,
                              !.lost = plan.lost]
  /\ session' = NoSession
  /\ UNCHANGED <<fs, manifests, now, hist, opts, call>>

\* undoLastChange({ scope }) from a second process, with its throw when
\* findLatestBackup returns null
UndoFromShell(xdev) ==
  /\ plan.pc \in {"idle", "planned"}
  /\ plan.undos < MaxUndos
  /\ \/ \E latest \in findLatestBackup(fs, manifests, canonicalRoot) :
        \E u \in {undoLastChange(fs, manifests, "global", latest, Stamp(now), now, xdev)} :
          /\ fs' = u.fs
          /\ manifests' = u.manifests
          /\ hist' = Append(hist, OpRec("undo", FALSE, fs, fs, fs', <<>>,
                                        [NoRes EXCEPT !.restored = u.res.restored,
                                                      !.restoredBackups = u.res.restoredBackups,
                                                      !.removedCreated = u.res.removedCreated,
                                                      !.removedSymlinks = u.res.removedSymlinks,
                                                      !.err = u.res.err],
                                        u.s.entries,
                                        loadBackupManifest(fs, manifests, latest).entries,
                                        latest, u.s.dir, <<>>))
     \/ /\ findLatestBackup(fs, manifests, canonicalRoot) = {}
        /\ UNCHANGED <<fs, manifests>>
        /\ hist' = Append(hist, OpRec("undo", FALSE, fs, fs, fs', <<>>,
                                      [NoRes EXCEPT !.threw = TRUE],
                                      <<>>, <<>>, <<>>, <<>>, <<>>))
  /\ plan' = [plan EXCEPT !.undos = @ + 1]
  /\ now' = now + 1
  /\ UNCHANGED <<opts, session, call>>

\* the user deletes the backup copy of an entry of a finalized session
LoseBackup ==
  /\ plan.pc = "idle"
  /\ plan.lost < MaxLost
  /\ \E d \in DOMAIN manifests :
     \E k \in DOMAIN manifests[d].entries :
       /\ manifests[d].entries[k].action = "backup"
       /\ pathExists(fs, manifests[d].entries[k].backupPath)
       /\ fs' = removePath(fs, manifests[d].entries[k].backupPath)
  /\ plan' = [plan EXCEPT !.lost = @ + 1]
  /\ UNCHANGED <<manifests, now, hist, opts, session, call>>

\* useInput: Escape leaves 'confirm-change' and 'migrate-choice' for 'action'
\* and drops the plan; Escape in step 'applying' and Enter outside step
\* 'done' match no branch ('q' is Kill)
KeyPress(key) ==
  /\ plan' = IF key = "escape" /\ plan.pc = "planned"
             THEN [NoChange EXCEPT !.changes = plan.changes, !.undos = plan.undos,
                                   !.lost = plan.lost]
             ELSE plan
  /\ UNCHANGED <<fs, manifests, now, hist, opts, session, call>>

NextChange ==
  \/ \E key \in {"escape", "return"} : KeyPress(key)
  \/ PlanChange
  \/ \E forceLinks \in BOOLEAN, pick \in {0, 2} : StartChange(forceLinks, pick)
  \/ Preflight
  \/ \E xdev \in BOOLEAN : ApplyChange(xdev)
  \/ FinalizeChange
  \/ Kill
  \/ \E xdev \in BOOLEAN : UndoFromShell(xdev)
  \/ LoseBackup

SpecChange == InitChange /\ [][NextChange]_vars

\* ------------------------------------------------------------------ undo selection
\* operation i is an undoLastChange that found a backup to reverse
UndoRan(i) == hist[i].op = "undo" /\ ~hist[i].res.threw

\* the backup directories that held a manifest when operation i started
WithManifest(i) ==
  {d \in listBackupDirs(hist[i].pre, canonicalRoot) :
     pathExists(hist[i].pre, d \o <<MANIFEST_NAME>>)}

\* the backup directories without manifest that held content when operation i started
Unfinalized(i) ==
  {d \in listBackupDirs(hist[i].pre, canonicalRoot) :
     /\ ~pathExists(hist[i].pre, d \o <<MANIFEST_NAME>>)
     /\ \E p \in DOMAIN hist[i].pre :
          Len(p) > Len(d) /\ IsPrefix(d, p) /\ hist[i].pre[p].k = "file"}

\* the clock value a backup directory is named after
StampIndex(d) == CHOOSE n \in 0..15 : Stamp(n) = basename(d)

\* C12: undoLastChange never selects a backup directory that holds no
\* manifest.json, whatever backed-up content that directory holds.
C12_UnfinalizedNeverSelected ==
  \A i \in DOMAIN hist :
    UndoRan(i) => hist[i].undoneDir \in WithManifest(i)

\* an undo ran while a killed session's directory, named later than the selected
\* one and holding a backed-up file, lay beside it
C12_Witness ==
  \E i \in DOMAIN hist :
    /\ UndoRan(i)
    /\ \E d \in Unfinalized(i) : StampIndex(d) > StampIndex(hist[i].undoneDir)

\* C13: undoLastChange reverses the session whose manifest createdAt is greatest
\* among the backup directories holding a manifest, whatever the directories
\* are named and in whatever order they were created.
C13_LatestByCreatedAt ==
  \A i \in DOMAIN hist :
    UndoRan(i) =>
      /\ hist[i].undoneDir \in WithManifest(i)
      /\ \A d \in WithManifest(i) :
           manifests[d].createdAt <= manifests[hist[i].undoneDir].createdAt

\* the selected directory is named earlier than another finalized one
C13_Witness ==
  \E i \in DOMAIN hist :
    /\ UndoRan(i)
    /\ \E d \in WithManifest(i) : StampIndex(d) > StampIndex(hist[i].undoneDir)

\* operation i wrote its manifest
Wrote(i) ==
  /\ hist[i].dir # <<>>
  /\ pathExists(hist[i].post, hist[i].dir \o <<MANIFEST_NAME>>)

\* C14: after two finalized operations M1 then M2, consecutive undoLastChange
\* calls never select M1's manifest: an undo that follows a finalized
\* operation or a finalized undo selects the session that one wrote.
C14_UndoChain ==
  \A k \in DOMAIN hist :
    UndoRan(k) =>
      /\ k > 1 /\ Wrote(k - 1) => hist[k].undoneDir = hist[k - 1].dir
      /\ \A i, j \in 1..(k - 1) :
           ( /\ i < j
             /\ hist[i].op = "migrate" /\ hist[j].op = "migrate"
             /\ \A u \in (j + 1)..k : hist[u].op = "undo" )
           => hist[k].undoneDir # hist[i].dir

\* two changes, then two undos: the second undo reverses the first undo
C14_Witness ==
  /\ Len(hist) = 4
  /\ hist[1].op = "migrate" /\ hist[2].op = "migrate"
  /\ UndoRan(3) /\ UndoRan(4)
  /\ hist[3].undoneDir = hist[2].dir
  /\ hist[4].undoneDir = hist[3].dir

\* C15: undoLastChange on a canonical root where no backup directory holds a
\* manifest yields a classification or an empty result and does not throw.
C15_NoBackupsDoesNotThrow ==
  \A i \in DOMAIN hist :
    hist[i].op = "undo" /\ WithManifest(i) = {} => ~hist[i].res.threw

\* C18: preflightBackup is a dry run: the filesystem after the call is
\* identical to the filesystem before it.
C18_PreflightIsDryRun ==
  [][plan.pc = "preflight" /\ plan'.pc = "apply" => fs' = fs]_vars

\* ------------------------------------------------------------------ migration claims
\* the plan operation i applied: on this specification it is scanned right
\* before the apply
MigrationOf(i) == scanMigration(hist[i].pre, "global")

\* the path of a candidate's source, or the directory holding it, is a symlink
\* after operation i
Converted(i, c) ==
  \/ isSymlink(hist[i].post, c.sourcePath)
  \/ isSymlink(hist[i].post, dirname(c.sourcePath))

\* C16: when two clients hold a same-named file with different content,
\* scanMigration groups both into one conflict for the shared canonical
\* target; applying with one of them selected makes the canonical file equal
\* to the selected candidate, and the session holds a 'backup' entry covering
\* the unselected client's original location once that location has been
\* converted to a symlink.
C16_ConflictSelectionAndBackup ==
  \A i \in DOMAIN hist :
    hist[i].op = "migrate" =>
      \A a, b \in Range(discovered(hist[i].pre, "global")) :
        ( /\ a.kind = "file" /\ b.kind = "file"
          /\ a.targetPath = b.targetPath
          /\ a.sourcePath # b.sourcePath
          /\ hist[i].pre[a.sourcePath] # hist[i].pre[b.sourcePath] ) =>
          /\ Cardinality({k \in DOMAIN MigrationOf(i).conflicts :
                            MigrationOf(i).conflicts[k].targetPath = a.targetPath}) = 1
          /\ \A k \in DOMAIN MigrationOf(i).conflicts :
               MigrationOf(i).conflicts[k].targetPath = a.targetPath =>
                 {a, b} \subseteq Range(MigrationOf(i).conflicts[k].candidates)
          /\ selected(hist[i].selections, a.targetPath) = a =>
               /\ hist[i].post[a.targetPath] = hist[i].pre[a.sourcePath]
               /\ Converted(i, b) =>
                    \E e \in BackupEntries(i) : IsPrefix(e.originalPath, b.sourcePath)

\* the path that p names once the symlinks on the way are followed, at most
\* fuel of them
RECURSIVE realpath(_, _, _)
realpath(f, p, fuel) ==
  LET links == {q \in Prefixes(p) : isSymlink(f, q)}
  IN  IF links = {} \/ fuel = 0 THEN p
      ELSE LET q == CHOOSE q \in links : \A r \in links : Len(q) <= Len(r)
           IN  realpath(f, f[q].c \o SubSeq(p, Len(q) + 1, Len(p)), fuel - 1)

NoFile == [ok |-> FALSE, c |-> <<>>]

\* fs.readFile(p): the content of the file p resolves to
readFile(f, p) ==
  LET q == realpath(f, p, 4)
  IN  IF pathExists(f, q) /\ f[q].k = "file" THEN [ok |-> TRUE, c |-> f[q].c] ELSE NoFile

\* the auto candidates of operation i that are files found in a client directory
AutoFromClientDir(i) ==
  {c \in Range(MigrationOf(i).auto) :
     c.kind = "file" /\ dirname(c.targetPath) # canonicalRoot}

\* after operation i the canonical copy of c exists, the client directory is a
\* symlink to the canonical directory and the content is readable through
\* the original client path
MigratedAndLinked(i, c) ==
  /\ pathExists(hist[i].post, c.targetPath)
  /\ hist[i].post[c.targetPath] = hist[i].pre[c.sourcePath]
  /\ isSymlink(hist[i].post, dirname(c.sourcePath))
  /\ hist[i].post[dirname(c.sourcePath)].c = dirname(c.targetPath)
  /\ readFile(hist[i].post, c.sourcePath) = [ok |-> TRUE, c |-> hist[i].pre[c.sourcePath].c]

\* C17 (as stated): for every auto candidate file from a client directory,
\* after applyMigration and its relinking the canonical copy exists, the
\* client directory is a symlink to the canonical directory, and the file's
\* content is readable through its original client path.
C17_AutoCandidateReachable ==
  \A i \in DOMAIN hist :
    hist[i].op = "migrate" => \A c \in AutoFromClientDir(i) : MigratedAndLinked(i, c)

\* C17 (amended): the same when applyMigration runs with forceLinks; without it
\* the client directory is a 'conflict' task and stays a real directory.
C17_AutoCandidateReachableForced ==
  \A i \in DOMAIN hist :
    (hist[i].op = "migrate" /\ hist[i].force) =>
      \A c \in AutoFromClientDir(i) : MigratedAndLinked(i, c)

\* a forced migration that had an auto candidate from a client directory
C17_Witness ==
  \E i \in DOMAIN hist :
    /\ hist[i].op = "migrate" /\ hist[i].force
    /\ \E c \in AutoFromClientDir(i) : MigratedAndLinked(i, c)

\* ------------------------------------------------------------------ plan classification
\* the positions of the plan's tasks for one target
TaskIndexes(tasks, target) ==
  {k \in DOMAIN tasks : tasks[k].type # "ensure-source" /\ tasks[k].target = target}

\* C19: buildLinkPlan puts every resolved target of every mapping in exactly
\* one task: 'noop' iff the target is a symlink pointing at the mapping's
\* source, 'conflict' iff it is a real file or directory, 'link' otherwise
\* (missing, or a symlink pointing elsewhere), and a 'link' task has
\* replaceSymlink true iff a symlink exists at the target.
C19_OneTaskPerTarget ==
  plan.built =>
    \A m \in Range(getMappings(opts, fs)) :
      \A t \in Range(m.targets) :
        /\ Cardinality(TaskIndexes(plan.tasks, t)) = 1
        /\ \A k \in TaskIndexes(plan.tasks, t) :
             LET x == plan.tasks[k]
                 linked == isSymlink(fs, t) /\ fs[t].c = m.source
                 real == pathExists(fs, t) /\ ~isSymlink(fs, t)
             IN  /\ x.source = m.source
                 /\ x.type = "noop" <=> linked
                 /\ x.type = "conflict" <=> real
                 /\ x.type = "link" <=> (~linked /\ ~real)
                 /\ x.type = "link" => (x.replaceSymlink <=> isSymlink(fs, t))

\* a built plan holding a noop, a conflict, a link over a missing target and a
\* link over a symlink that points elsewhere
C19_Witness ==
  /\ plan.built
  /\ \E a, b, c, d \in Range(plan.tasks) :
       /\ a.type = "noop" /\ b.type = "conflict"
       /\ c.type = "link" /\ ~c.replaceSymlink /\ ~pathExists(fs, c.target)
       /\ d.type = "link" /\ d.replaceSymlink /\ isSymlink(fs, d.target)

\* C20: after applyLinkPlan with force on a freshly built plan, the target of
\* every 'link' and every 'conflict' task is a symlink whose link text is the
\* task's source.
C20_ForceLinksEveryTarget ==
  \A i \in DOMAIN hist :
    (LinkApply(i) /\ hist[i].force) =>
      \A t \in Range(hist[i].tasks) :
        t.type \in {"link", "conflict"} =>
          /\ isSymlink(hist[i].post, t.target)
          /\ hist[i].post[t.target].c = t.source

\* a forced apply whose plan held a conflict over a real directory with files
\* and a link over a symlink that pointed elsewhere
C20_Witness ==
  \E i \in DOMAIN hist :
    /\ LinkApply(i) /\ hist[i].force
    /\ \E t, u \in Range(hist[i].tasks) :
         /\ t.type = "conflict" /\ RealDirWithFiles(hist[i].pre, t.target)
         /\ u.type = "link" /\ u.replaceSymlink
         /\ hist[i].post[t.target] = LinkNode(t.source)
         /\ hist[i].post[u.target] = LinkNode(u.source)

\* ------------------------------------------------------------------ plain applies
\* the tasks of operation i that name a target
TargetTasks(i) == {t \in Range(hist[i].tasks) : t.type # "ensure-source"}

\* C21: applying without force a plan built on a state where no mapped target
\* exists creates every missing canonical source and leaves every mapped
\* target of the plan a symlink to its mapping's source.
C21_FreshApplyLinksEverything ==
  \A i \in DOMAIN hist :
    ( /\ hist[i].op = "apply" /\ ~hist[i].force
      /\ \A t \in TargetTasks(i) : ~pathExists(hist[i].pre, t.target) ) =>
      /\ \A t \in Range(hist[i].tasks) :
           t.type = "ensure-source" =>
             /\ pathExists(hist[i].post, t.path)
             /\ hist[i].post[t.path].k = t.kind
      /\ \A t \in TargetTasks(i) :
           /\ pathExists(hist[i].post, t.source)
           /\ hist[i].post[t.target] = LinkNode(t.source)
      /\ hist[i].res.applied = Len(hist[i].tasks)

\* an unforced apply on a home without any mapped target, whose plan had to
\* create canonical sources
C21_Witness ==
  \E i \in DOMAIN hist :
    /\ hist[i].op = "apply" /\ ~hist[i].force
    /\ \A t \in TargetTasks(i) : ~pathExists(hist[i].pre, t.target)
    /\ TargetTasks(i) # {}
    /\ \E t \in Range(hist[i].tasks) :
         t.type = "ensure-source" /\ ~pathExists(hist[i].pre, t.path)
    /\ \A t \in TargetTasks(i) : isSymlink(hist[i].post, t.target)

\* the positions of operation i's 'link' tasks whose target existed when the
\* links were applied
StaleLinks(i) ==
  {k \in DOMAIN hist[i].tasks :
     hist[i].tasks[k].type = "link" /\ pathExists(hist[i].mid, hist[i].tasks[k].target)}

\* the positions of operation i's tasks of one type
TasksOfType(i, type) == {k \in DOMAIN hist[i].tasks : hist[i].tasks[k].type = type}

C23_ManifestOnlyAtFinalize ==
  /\ session.open => ~pathExists(fs, session.dir \o <<MANIFEST_NAME>>)
  /\ \A d \in listBackupDirs(fs, canonicalRoot) :
       pathExists(fs, d \o <<MANIFEST_NAME>>) =>
         \E i \in DOMAIN hist : hist[i].dir = d /\ Wrote(i)

\* a session was dropped after applyMigration had backed a file up into it
C23_Witness ==
  /\ ~session.open
  /\ \E d \in listBackupDirs(fs, canonicalRoot) :
       /\ ~pathExists(fs, d \o <<MANIFEST_NAME>>)
       /\ \A i \in DOMAIN hist : hist[i].dir # d
       /\ \E p \in DOMAIN fs : Len(p) > Len(d) /\ IsPrefix(d, p) /\ fs[p].k = "file"

\* C24: when no backup subdirectory holds a manifest, undoLastChange fails
\* with 'No backups found to undo.' before it creates an undo session
\* directory or changes any path: the filesystem is unchanged by the call.
C24_FailedUndoChangesNothing ==
  \A i \in DOMAIN hist :
    (hist[i].op = "undo" /\ WithManifest(i) = {}) =>
      /\ hist[i].res.threw
      /\ hist[i].post = hist[i].pre
      /\ hist[i].dir = <<>>

\* an undo failed while a backup directory without manifest held a file
C24_Witness ==
  \E i \in DOMAIN hist :
    /\ hist[i].op = "undo" /\ hist[i].res.threw
    /\ Unfinalized(i) # {}
    /\ hist[i].post = hist[i].pre

\* the positions of the 'create' entries undone by operation i whose path
\* existed when the undo was invoked
CreatedPresent(i) ==
  {k \in DOMAIN hist[i].undone :
     /\ hist[i].undone[k].action = "create"
     /\ pathExists(hist[i].pre, hist[i].undone[k].originalPath)}

\* C25: undoLastChange deletes every 'create' entry's path that exists when
\* undo is invoked, and its removedCreated result equals the number of such
\* entries (removedSymlinks the number of them whose kind is 'symlink').
C25_RemovedCreatedCounted ==
  \A i \in DOMAIN hist :
    (UndoRan(i) /\ ~hist[i].res.err) =>
      /\ \A k \in CreatedPresent(i) :
           ~pathExists(hist[i].post, hist[i].undone[k].originalPath)
      /\ hist[i].res.removedCreated = Cardinality(CreatedPresent(i))
      /\ hist[i].res.removedSymlinks
           = Cardinality({k \in CreatedPresent(i) : hist[i].undone[k].kind = "symlink"})

\* the positions of the 'backup' entries undone by operation i whose backup
\* copy was gone when the undo was invoked
Vanished(i) ==
  {k \in DOMAIN hist[i].undone :
     /\ hist[i].undone[k].action = "backup"
     /\ ~pathExists(hist[i].pre, hist[i].undone[k].backupPath)}

\* the positions of the 'backup' entries undone by operation i whose backup
\* copy was there
Kept(i) ==
  {k \in DOMAIN hist[i].undone :
     /\ hist[i].undone[k].action = "backup"
     /\ pathExists(hist[i].pre, hist[i].undone[k].backupPath)}

\* C26: an entry with action 'backup' whose backup copy no longer exists is
\* skipped by undoLastChange without an error and is not counted as restored;
\* undo still restores the remaining entries and finalizes its own manifest.
C26_VanishedBackupSkipped ==
  \A i \in DOMAIN hist :
    (UndoRan(i) /\ Vanished(i) # {}) =>
      /\ ~hist[i].res.err
      /\ hist[i].res.restoredBackups = Cardinality(Kept(i))
      /\ hist[i].res.restored = hist[i].res.restoredBackups + hist[i].res.removedCreated
      /\ \A k \in Kept(i) :
           Subtree(hist[i].post, hist[i].undone[k].originalPath)
             = Subtree(hist[i].pre, hist[i].undone[k].backupPath)
      /\ Wrote(i)

\* an undo met one vanished backup copy and one that was still there
C26_Witness ==
  \E i \in DOMAIN hist :
    /\ UndoRan(i) /\ Vanished(i) # {} /\ Kept(i) # {}
    /\ hist[i].res.restoredBackups > 0
    /\ Wrote(i)

\* C27: for an entry that undoLastChange skips because its backup copy has
\* vanished, whatever sits at the entry's originalPath when undo is invoked
\* is still there, unchanged, when undo returns.
C27_SkippedEntryOriginalKept ==
  \A i \in DOMAIN hist :
    UndoRan(i) =>
      \A k \in Vanished(i) :
        Subtree(hist[i].post, hist[i].undone[k].originalPath)
          = Subtree(hist[i].pre, hist[i].undone[k].originalPath)

\* ------------------------------------------------------------------ session calls
\* C28: backupPath on a symlink creates at the backup destination a symlink
\* with the same link text, removes the original link, records an entry of
\* kind 'symlink', and leaves the file or directory the link refers to
\* untouched.
C28_SymlinkBackedUpAsLink ==
  ( /\ call.op = "backupPath" /\ call.ret = TRUE
    /\ isSymlink(call.fsBefore, call.target) ) =>
    LET dest == backupPathFor(call.target, session.dir)
        link == call.fsBefore[call.target].c
    IN  /\ isSymlink(fs, dest) /\ fs[dest].c = link
        /\ ~pathExists(fs, call.target)
        /\ session.entries
             = Append(call.entriesBefore, Entry(call.target, dest, "symlink", "backup"))
        /\ \A p \in DOMAIN call.fsBefore :
             (IsPrefix(link, p) /\ p # call.target) =>
               p \in DOMAIN fs /\ fs[p] = call.fsBefore[p]
        /\ \A p \in DOMAIN fs : IsPrefix(link, p) => p \in DOMAIN call.fsBefore

\* backupPath moved a symlink whose referent exists
C28_Witness ==
  /\ call.op = "backupPath" /\ call.ret = TRUE
  /\ isSymlink(call.fsBefore, call.target)
  /\ pathExists(fs, call.fsBefore[call.target].c)
  /\ isSymlink(fs, backupPathFor(call.target, session.dir))

\* C29: backupPath falls back to copy-then-delete only when the rename fails
\* with the cross-device error: the call then moves the target and records
\* it; with any other rename failure the error propagates, the target stays
\* where it is, no entry is appended and no path is marked as seen.
C29_OnlyCrossDeviceFallsBack ==
  ( /\ call.op = "backupPath"
    /\ renameReached(World(call.fsBefore, [session EXCEPT !.seen = call.seenBefore], FALSE),
                     call.target) ) =>
    LET dest == backupPathFor(call.target, session.dir)
        refused == renameFails(call.fsBefore, call.target, dest)
    IN  /\ call.threw <=> (call.code = "EACCES" \/ (call.code = "" /\ refused))
        /\ IF call.threw
           THEN /\ Subtree(fs, call.target) = Subtree(call.fsBefore, call.target)
                /\ session.entries = call.entriesBefore
                /\ session.seen = call.seenBefore
           ELSE /\ call.ret = TRUE
                /\ ~pathExists(fs, call.target)
                /\ \A r \in DOMAIN Subtree(call.fsBefore, call.target) :
                     /\ pathExists(fs, dest \o r)
                     /\ fs[dest \o r] = call.fsBefore[call.target \o r]
                /\ Len(session.entries) = Len(call.entriesBefore) + 1
                /\ session.seen = call.seenBefore \cup {call.target}

\* one backupPath call fell back on a cross-device rename of a directory with
\* content, another one failed with a different error
C29_Witness ==
  /\ call.op = "backupPath" /\ call.threw /\ call.code = "EACCES"
  /\ pathExists(fs, call.target)
  /\ \E e \in Range(session.entries) :
       /\ e.action = "backup" /\ e.kind = "dir"
       /\ \E p \in DOMAIN fs : Len(p) > Len(e.backupPath) /\ IsPrefix(e.backupPath, p)
       /\ ~pathExists(fs, e.originalPath)

\* the last recordCreatedPath call appended exactly one 'create' entry for
\* its target, without backupPath
AppendedCreate ==
  /\ Len(session.entries) = Len(call.entriesBefore) + 1
  /\ SubSeq(session.entries, 1, Len(call.entriesBefore)) = call.entriesBefore
  /\ \E kind \in {"file", "dir", "symlink"} :
       session.entries[Len(session.entries)] = Entry(call.target, <<>>, kind, "create")

\* C30 (as stated): every recordCreatedPath call appends to the session
\* exactly one entry with action 'create', the resolved target as
\* originalPath and no backupPath.
C30_EveryCallAppends ==
  call.op = "recordCreatedPath" => AppendedCreate

\* C30 (amended): a recordCreatedPath call appends exactly one such entry
\* unless the target is a path already recorded in the session or lies
\* beneath one; then it appends nothing.
C30_AppendsUnlessCovered ==
  call.op = "recordCreatedPath" =>
    IF hasParentPath(call.target, call.seenBefore)
    THEN session.entries = call.entriesBefore /\ session.seen = call.seenBefore
    ELSE AppendedCreate /\ session.seen = call.seenBefore \cup {call.target}

\* a recordCreatedPath call appended a second entry to the session
C30_Witness ==
  /\ call.op = "recordCreatedPath"
  /\ ~hasParentPath(call.target, call.seenBefore)
  /\ Len(call.entriesBefore) > 0
  /\ AppendedCreate

\* ------------------------------------------------------------------ the status screen's own plan
\* The status screen builds its link plan when the scope is chosen and after
\* every operation (refreshStatus) and applies the plan it shows, so the plan
\* may be older than the filesystem it is applied to.
MaxShown == 2

\* !backup
backupMissing_never(s) == FALSE

backupMissing(s) == ~s.open

InitScreen ==
  /\ opts = GlobalOpts
  /\ fs \in MainSeeds
  /\ plan = [built |-> TRUE, tasks |-> buildLinkPlan(GlobalOpts, fs), lastEdit |-> "none"]
  /\ manifests = [d \in {} |-> NoManifest]
  /\ now = 1
  /\ hist = <<>>
  /\ session = NoSession
  /\ call = NoCall

\* a canonical source the shown plan found missing is created by hand, a
\* directory with a file in it or a file with the user's own content
CreateSource ==
  /\ Len(hist) < MaxShown
  /\ \E t \in Range(plan.tasks) :
       /\ t.type = "ensure-source"
       /\ ~pathExists(fs, t.path)
       /\ fs' = IF t.kind = "dir"
                THEN writeNode(ensureDir(fs, t.path), t.path \o <<"mine.md">>, FileNode("mine"))
                ELSE writeNode(ensureDir(fs, dirname(t.path)), t.path, FileNode("mine"))
  /\ plan' = [plan EXCEPT !.lastEdit = "write"]
  /\ UNCHANGED <<manifests, now, hist, opts, session, call>>

\* applyLinkPlan(plan) or applyLinkPlan(plan, { force: true, backupDir }) on
\* the shown plan, then refreshStatus
ApplyShown(force, xdev) ==
  /\ Len(hist) < MaxShown
  /\ \E dir \in {canonicalRoot \o <<"backup", Stamp(now)>>} :
     \E r \in {applyLinkPlan(fs, plan.tasks, force, IF force THEN Some(dir) ELSE None,
                             Stamp(now), xdev)} :
       /\ fs' = r.fs
       /\ hist' = Append(hist, OpRec(IF force THEN "force-apply" ELSE "apply", force, fs, fs,
                                     fs', plan.tasks, LinkRes(r), <<>>, <<>>, <<>>, dir, <<>>))
       /\ plan' = [built |-> TRUE, tasks |-> buildLinkPlan(opts, r.fs), lastEdit |-> "none"]
  /\ now' = now + 1
  /\ UNCHANGED <<manifests, opts, session, call>>

\* scanMigration, then applyMigration(plan, selections, { scope }): no backup
\* session is passed, and the catch block shows the error's message
MigrateShown(pick) ==
  /\ Len(hist) < MaxShown
  /\ \E mplan \in {scanMigration(fs, "global")} :
     \E r \in {IF backupMissing(NoSession) THEN [fs |-> fs, threw |-> TRUE]
               ELSE [fs |-> applyMigration(fs, NoSession, mplan, Selections(mplan, pick),
                                           "global", FALSE, Stamp(now), FALSE).fs,
                     threw |-> FALSE]} :
       /\ fs' = r.fs
       /\ hist' = Append(hist, OpRec("migrate", FALSE, fs, fs, fs', <<>>,
                                     [NoRes EXCEPT !.threw = r.threw], <<>>, <<>>, <<>>, <<>>,
                                     Selections(mplan, pick)))
  /\ now' = now + 1
  /\ UNCHANGED <<manifests, opts, plan, session, call>>

NextScreen ==
  \/ CreateSource
  \/ \E force \in BOOLEAN, xdev \in BOOLEAN : ApplyShown(force, xdev)
  \/ \E pick \in {0, 2} : MigrateShown(pick)

SpecScreen == InitScreen /\ [][NextScreen]_vars

\* ------------------------------------------------------------------ applies of the shown plan
\* the positions of operation i's tasks of one type
TypeIndexes(i, type) == {k \in DOMAIN hist[i].tasks : hist[i].tasks[k].type = type}

\* operation i applied the plan the screen showed
ShownApply(i) == hist[i].op \in {"apply", "force-apply"}

\* C31: an 'ensure-source' task creates its source (an empty directory, or a
\* file holding the default content) only when nothing exists at its path;
\* a source that exists when the plan is applied keeps its content; and the
\* task is counted as applied either way: applied is the number of
\* ensure-source tasks plus the number of links made.
C31_EnsureSourceKeepsExisting ==
  \A i \in DOMAIN hist :
    ShownApply(i) =>
      /\ \A k \in TypeIndexes(i, "ensure-source") :
           LET t == hist[i].tasks[k]
           IN  IF pathExists(hist[i].pre, t.path)
               THEN Subtree(hist[i].post, t.path) = Subtree(hist[i].pre, t.path)
               ELSE /\ pathExists(hist[i].post, t.path)
                    /\ hist[i].post[t.path] =
                         IF t.kind = "dir" THEN DirNode ELSE FileNode(DEFAULT_AGENTS)
                    /\ Children(hist[i].post, t.path) = {}
      /\ hist[i].res.applied =
           Cardinality(TypeIndexes(i, "ensure-source"))
           + Cardinality({k \in TypeIndexes(i, "link") :
                            hist[i].force \/ ~pathExists(hist[i].pre, hist[i].tasks[k].target)})
           + Cardinality({k \in TypeIndexes(i, "conflict") : hist[i].force})

\* an apply of a plan with two ensure-source tasks: the source of one was
\* written by hand after the plan was built and is kept, the other is created
C31_Witness ==
  \E i \in DOMAIN hist :
    /\ ShownApply(i)
    /\ \E j, k \in TypeIndexes(i, "ensure-source") :
         /\ pathExists(hist[i].pre, hist[i].tasks[j].path)
         /\ hist[i].pre[hist[i].tasks[j].path] = FileNode("mine")
         /\ hist[i].post[hist[i].tasks[j].path] = FileNode("mine")
         /\ ~pathExists(hist[i].pre, hist[i].tasks[k].path)
         /\ hist[i].post[hist[i].tasks[k].path] = DirNode
    /\ hist[i].res.applied >= 2

\* ------------------------------------------------------------------ migration scans
\* the canonical targets scanMigration discovers in filesystem f
ScanTargets(f) == {c.targetPath : c \in Range(discovered(f, "global"))}

\* the discovered candidates of one canonical target, in discovery order
FoundFor(f, t) ==
  LET forTarget(c) == c.targetPath = t
  IN  SelectSeq(discovered(f, "global"), forTarget)

\* C32: scanMigration puts every discovered canonical target in exactly one
\* of auto and conflicts: in auto iff the target has exactly one candidate and
\* nothing exists at the target; a conflict lists at least two candidates,
\* the discovered ones in discovery order, behind a 'keep existing' candidate
\* iff something exists at the canonical target.
C32_AutoOrConflict ==
  LET m == scanMigration(fs, "global")
      autoAt(t) == {k \in DOMAIN m.auto : m.auto[k].targetPath = t}
      conflictsAt(t) == {k \in DOMAIN m.conflicts : m.conflicts[k].targetPath = t}
  IN  /\ \A t \in ScanTargets(fs) :
           /\ Cardinality(autoAt(t)) + Cardinality(conflictsAt(t)) = 1
           /\ autoAt(t) # {} <=> (Len(FoundFor(fs, t)) = 1 /\ ~pathExists(fs, t))
      /\ \A k \in DOMAIN m.auto :
           /\ m.auto[k].targetPath \in ScanTargets(fs)
           /\ m.auto[k] = FoundFor(fs, m.auto[k].targetPath)[1]
      /\ \A k \in DOMAIN m.conflicts :
           LET c == m.conflicts[k]
           IN  /\ c.targetPath \in ScanTargets(fs)
               /\ Len(c.candidates) >= 2
               /\ IF pathExists(fs, c.targetPath)
                  THEN /\ c.candidates[1].action = "keep"
                       /\ c.candidates[1].targetPath = c.targetPath
                       /\ Tail(c.candidates) = FoundFor(fs, c.targetPath)
                  ELSE c.candidates = FoundFor(fs, c.targetPath)

\* the change plan just made holds an auto candidate, a conflict between two
\* clients over a missing target or a conflict led by 'keep existing'
C32_Witness ==
  /\ plan.pc = "planned"
  /\ plan.migrate = scanMigration(fs, "global")
  /\ Len(plan.migrate.auto) > 0
  /\ \E k \in DOMAIN plan.migrate.conflicts :
       /\ plan.migrate.conflicts[k].candidates[1].action = "keep"
       /\ Len(plan.migrate.conflicts[k].candidates) = 3

\* ------------------------------------------------------------------ migration copies
\* the candidates migration i accepted: its auto list and the selected copies
Accepted(i) == Range(collectMigrationCandidates(MigrationOf(i), hist[i].selections))

\* the positions of migration i's session entries for one path
EntriesAt(i, p) == {k \in DOMAIN hist[i].entries : hist[i].entries[k].originalPath = p}

\* C33: for each accepted candidate applyMigration records exactly one session
\* entry: a 'backup' entry, with the former target moved into the backup tree,
\* when the canonical target existed, otherwise a 'create' entry; and when the
\* copies are done the canonical target's content equals the candidate's source.
C33_OneEntryPerCopy ==
  \A i \in DOMAIN hist :
    hist[i].op = "migrate" =>
      /\ Len(hist[i].entries) = Cardinality(Accepted(i))
      /\ \A c \in Accepted(i) :
           /\ Cardinality(EntriesAt(i, c.targetPath)) = 1
           /\ \A k \in EntriesAt(i, c.targetPath) :
                LET e == hist[i].entries[k]
                IN  IF pathExists(hist[i].pre, c.targetPath)
                    THEN /\ e.action = "backup"
                         /\ IsPrefix(hist[i].dir, e.backupPath)
                         /\ Subtree(hist[i].mid, e.backupPath) = Subtree(hist[i].pre, c.targetPath)
                    ELSE e.action = "create"
           /\ Subtree(hist[i].mid, c.targetPath) = Subtree(hist[i].pre, c.sourcePath)

\* a migration that copied a selected candidate over an existing canonical
\* file of other content and an auto candidate onto a missing target
C33_Witness ==
  \E i \in DOMAIN hist :
    /\ hist[i].op = "migrate"
    /\ \E c, d \in Accepted(i) :
         /\ pathExists(hist[i].pre, c.targetPath)
         /\ hist[i].pre[c.targetPath] # hist[i].pre[c.sourcePath]
         /\ hist[i].mid[c.targetPath] = hist[i].pre[c.sourcePath]
         /\ ~pathExists(hist[i].pre, d.targetPath)
         /\ \E k \in EntriesAt(i, c.targetPath) : hist[i].entries[k].action = "backup"
         /\ \E k \in EntriesAt(i, d.targetPath) : hist[i].entries[k].action = "create"

\* the positions of migration i's conflicts whose selection is not a copy:
\* no selection, or the 'keep existing' candidate
SkippedConflicts(i) ==
  {k \in DOMAIN MigrationOf(i).conflicts :
     selected(hist[i].selections, MigrationOf(i).conflicts[k].targetPath).action # "copy"}

\* C34: a migration conflict whose selection is absent or the 'keep'
\* candidate is counted as skipped, its canonical target is the same after
\* the copies and after the whole migration as before, and the session holds
\* no entry for it.
C34_UnselectedConflictSkipped ==
  \A i \in DOMAIN hist :
    hist[i].op = "migrate" =>
      /\ hist[i].res.mskipped = Cardinality(SkippedConflicts(i))
      /\ \A k \in SkippedConflicts(i) :
           LET t == MigrationOf(i).conflicts[k].targetPath
           IN  /\ Subtree(hist[i].mid, t) = Subtree(hist[i].pre, t)
               /\ Subtree(hist[i].post, t) = Subtree(hist[i].pre, t)
               /\ EntriesAt(i, t) = {}

\* one migration skipped a conflict that had no selection, a later one a
\* conflict whose selection was 'keep existing'
C34_Witness ==
  \E i, j \in DOMAIN hist :
    /\ hist[i].op = "migrate" /\ hist[j].op = "migrate"
    /\ \E k \in SkippedConflicts(i) :
         /\ selected(hist[i].selections, MigrationOf(i).conflicts[k].targetPath) = NoChoice
         /\ ~pathExists(hist[i].post, MigrationOf(i).conflicts[k].targetPath)
    /\ \E k \in SkippedConflicts(j) :
         /\ selected(hist[j].selections, MigrationOf(j).conflicts[k].targetPath).action = "keep"
         /\ pathExists(hist[j].post, MigrationOf(j).conflicts[k].targetPath)
    /\ hist[i].res.mskipped > 0 /\ hist[j].res.mskipped > 0

\* the paths of f that are neither in the canonical root nor above it: the
\* clients' own paths
ClientPaths(f) == {p \in DOMAIN f : ~IsPrefix(canonicalRoot, p) /\ ~IsPrefix(p, canonicalRoot)}

\* C35: in applyMigration the state the link plan is built from already holds
\* every accepted candidate's copy and no client path has changed in it yet;
\* the plan is the one buildLinkPlan gives for that post-copy state, and the
\* links appear only in the state after it.
C35_CopiesBeforeLinks ==
  \A i \in DOMAIN hist :
    hist[i].op = "migrate" =>
      /\ \A c \in Accepted(i) :
           Subtree(hist[i].mid, c.targetPath) = Subtree(hist[i].pre, c.sourcePath)
      /\ ClientPaths(hist[i].mid) = ClientPaths(hist[i].pre)
      /\ \A p \in ClientPaths(hist[i].pre) : hist[i].mid[p] = hist[i].pre[p]
      /\ hist[i].tasks = buildLinkPlan(GlobalOpts, hist[i].mid)
      /\ \A t \in Range(hist[i].tasks) :
           (t.type = "link" /\ ~pathExists(hist[i].mid, t.target))
             => hist[i].post[t.target] = LinkNode(t.source)

\* a migration into a home without a canonical root: the copies created the
\* canonical commands directory, so the plan has no ensure-source task for
\* it although it was missing before, and a client directory that was still
\* real after the copies is a symlink at the end
C35_Witness ==
  \E i \in DOMAIN hist :
    /\ hist[i].op = "migrate"
    /\ Accepted(i) # {}
    /\ ~pathExists(hist[i].pre, canonicalRoot \o <<"commands">>)
    /\ pathExists(hist[i].mid, canonicalRoot \o <<"commands">>)
    /\ \A t \in Range(hist[i].tasks) :
         t.type = "ensure-source" => t.path # canonicalRoot \o <<"commands">>
    /\ \E t \in Range(hist[i].tasks) :
         /\ t.type = "conflict"
         /\ isDirectory(hist[i].mid, t.target)
         /\ hist[i].post[t.target] = LinkNode(t.source)

\* ------------------------------------------------------------------ migration without a session
\* C36: applyMigration called without a backup session throws before it
\* copies anything or changes any link: the filesystem after the failed call
\* is the one before it, although the scan had found candidates to copy.
C36_NoSessionNoChange ==
  \A i \in DOMAIN hist :
    hist[i].op = "migrate" =>
      /\ hist[i].res.threw
      /\ hist[i].post = hist[i].pre
      /\ hist[i].res.copied = 0
      /\ hist[i].entries = <<>>

\* a failed call whose migration plan held candidates to copy, in a home
\* where a plain apply of the shown plan then makes links
C36_Witness ==
  \E i, j \in DOMAIN hist :
    /\ hist[i].op = "migrate" /\ hist[i].res.threw
    /\ Len(MigrationOf(i).auto) > 0
    /\ Len(MigrationOf(i).conflicts) > 0
    /\ hist[i].post = hist[i].pre
    /\ i < j /\ ShownApply(j) /\ hist[j].res.applied > 0

\* ------------------------------------------------------------------ the counts of an apply
\* C37: applyLinkPlan counts every conflict task in conflicts; without force
\* applied + skipped + conflicts is the number of tasks; with force every
\* conflict task (its target differs from its source) is also counted in
\* applied, so applied + skipped is the number of tasks.
C37_CountsAddUp ==
  \A i \in DOMAIN hist :
    ShownApply(i) =>
      /\ hist[i].res.conflicts = Cardinality(TypeIndexes(i, "conflict"))
      /\ \A k \in TypeIndexes(i, "conflict") : hist[i].tasks[k].target # hist[i].tasks[k].source
      /\ IF hist[i].force
         THEN /\ hist[i].res.applied + hist[i].res.skipped = Len(hist[i].tasks)
              /\ hist[i].res.skipped = Cardinality(TypeIndexes(i, "noop"))
         ELSE hist[i].res.applied + hist[i].res.skipped + hist[i].res.conflicts
                = Len(hist[i].tasks)

\* an apply without force that applied, skipped and met conflicts, followed
\* by a forced apply of the refreshed plan that replaced conflicts and
\* skipped what was linked already
C37_Witness ==
  \E i, j \in DOMAIN hist :
    /\ i < j /\ ShownApply(i) /\ ShownApply(j)
    /\ ~hist[i].force /\ hist[j].force
    /\ hist[i].res.applied > 0 /\ hist[i].res.skipped > 0 /\ hist[i].res.conflicts > 0
    /\ hist[j].res.applied > 0 /\ hist[j].res.skipped > 0 /\ hist[j].res.conflicts > 0

\* ------------------------------------------------------------------ a second scan
\* C38: after a migration with forceLinks has finished, a new scanMigration
\* of the same roots returns no auto candidate and no conflict.
C38_OnePassCompletes ==
  \A i \in DOMAIN hist :
    (hist[i].op = "migrate" /\ hist[i].force) =>
      /\ scanMigration(hist[i].post, "global").auto = <<>>
      /\ scanMigration(hist[i].post, "global").conflicts = <<>>

\* ------------------------------------------------------------------ one operation at a time
\* the positions of the change flow at which the screen is in step 'applying'
Running == {"preflight", "apply", "finalize"}

\* C39: while an operation is running (step 'applying') no input starts a
\* second change or an undo: every step from such a state either leaves the
\* running operation's session, plan and counters of started operations as
\* they are, or ends the operation (it completes and is recorded, or the
\* program exits); only then can a new operation be chosen.
C39_OneOperationAtATime ==
  [][ plan.pc \in Running =>
        /\ plan'.changes = plan.changes
        /\ plan'.undos = plan.undos
        /\ \/ /\ plan'.pc \in Running
              /\ session'.dir = session.dir
              /\ plan'.timestamp = plan.timestamp
              /\ hist' = hist
           \/ /\ plan'.pc = "idle"
              /\ session' = NoSession
              /\ \/ hist' = hist
                 \/ /\ Len(hist') = Len(hist) + 1
                    /\ hist'[Len(hist')].op = "migrate"
                    /\ hist'[Len(hist')].dir = session.dir ]_vars

\* an operation is running with its copies made, after an earlier change was
\* completed whose backup an undo could take back
C39_Witness ==
  /\ plan.pc = "finalize"
  /\ session.open /\ Len(session.entries) > 0
  /\ hist # <<>>
  /\ findLatestBackup(fs, manifests, canonicalRoot) # {}
  /\ plan.undos < MaxUndos

====
